---- MODULE Spec2Model ----
(***************************************************************************)
(* The event ordering and playback engine of the debate arena frontend:   *)
(* the zustand store of src/frontend/src/store/debateStore.ts.  One       *)
(* action per store handler or timer callback; the JavaScript runtime is  *)
(* single threaded, so every handler runs to completion and is one step.  *)
(***************************************************************************)
EXTENDS Integers, Sequences, FiniteSets, TLC

\* JavaScript undefined / null, by the type of the field that holds it: an absent
\* string or object field, an absent number, a null timer handle.  Absent message
\* content is the empty string: the code only tests content for falsiness.
NoVal == "undefined"
NoNum == -1
NoTimer == 0
\* cancelDebate: null
NoStream == 0

(***************************************************************************)
(* Bounds of the model.                                                    *)
(***************************************************************************)
\* Number of stream events delivered to handleSSEEvent in one behaviour.
MaxEvents == 3
\* Number of deferred modal re-checks that may be pending at once.
MaxRecheck == 2
\* Largest number of words of a text given to calculateReadingTime, and the
\* longest run of whitespace between two of its words.
MaxWords == 60
MaxGap == 2
\* Number of stream events delivered in one behaviour of a voting round.
MaxRoundEvents == 4
\* Number of stream events delivered in one behaviour of a session that may be
\* stopped.
MaxSessionEvents == 2
\* Number of frames the server sends on one stream, and number of calls of the
\* cancel function streamDebate returned.
MaxFrames == 2
MaxCancels == 2
\* Number of stream events delivered in one behaviour that follows the payloads
\* of the events.
MaxPayloadEvents == 2
\* Number of stream events delivered in one behaviour that follows the modal
\* component.
MaxModalEvents == 3
\* Number of stream events delivered in one behaviour that follows the queue.
MaxQueueEvents == 3

(***************************************************************************)
(* Program constants.                                                      *)
(***************************************************************************)
MsPerWord == 300
MinReadingTime == 3000
MaxReadingTime == 15000
VoteCastDelay == 1000
RecheckDelay == 50
ModalDelay == 5000

(***************************************************************************)
(* The roster (what fetchAgents loaded) and the strings of the model.      *)
(* A string that the code inspects (message content) is a sequence of      *)
(* characters; the others are opaque.                                      *)
(***************************************************************************)
AgentIds == {"p1", "p2"}
AgentName == [p1 |-> "Alice", p2 |-> "Bob"]
OppositionId == "opp"
OppositionName == "Opposition"

Whitespace == {" ", "\n", "\t"}
EmptyString == << >>
Hi == <<"h", "i">>
NoWay == <<"n", "o", " ", "w", "a", "y">>

VARIABLES
  eventQueue,               \* QueuedEvent[]
  isProcessingQueue,        \* boolean
  isPaused,                 \* boolean
  queueProcessorTimeout,    \* handle of the last display timer stored, or NoTimer
  agents,                   \* roster: id -> presentation fields
  oppositionAgent,          \* presentation fields of the opposition, or NoOpposition
  phase,                    \* "debating" | "voting"
  currentSpeakerId,
  currentSpeakerRole,
  currentEvaluatingAgentId,
  voteCasts,                \* VoteCast[]
  votingResultModal,
  isDebating,
  cancelDebate,             \* the stream whose cancel function the store holds, or NoStream
  timers,                   \* the runtime's pending setTimeout callbacks
  received,                 \* number of events delivered by the stream so far
  applied,                  \* history: arrival indices of the events dequeued, in order
  pausedEvent,              \* history: event whose display the current pause interrupted
  queuedAtComplete,         \* history: the queue when debate_complete last arrived
  lastOp,                   \* history: the handler that ran last, and what it met
  pc,                       \* where the stream's run() stands: "fetch", "read", "returned"
  aborted,                  \* controller.signal.aborted
  stopped,                  \* history: stopDebateStream has been called
  server,                   \* stream adapter alone: what the server and the transport do
  wire,                     \* stream adapter alone: the characters not yet read
  buffer,                   \* stream adapter alone: let buffer of run()
  log,                      \* stream adapter alone: the callbacks invoked, in order
  connections,              \* stream adapter alone: number of fetch calls made
  cancels,                  \* stream adapter alone: number of calls of the cancel function
  lastEvent,                \* history of a voting round: the event dequeued last
  enqueued,                 \* history: arrival indices of the queueable events received
  streams,                  \* restarts alone: every stream startDebate opened, by number
  input,                    \* timing policy alone: the text to be timed
  timed                     \* timing policy alone: the reading time computed for it

vars == << eventQueue, isProcessingQueue, isPaused, queueProcessorTimeout, agents,
           oppositionAgent, phase, currentSpeakerId, currentSpeakerRole,
           currentEvaluatingAgentId, voteCasts, votingResultModal, isDebating,
           timers, received, applied, pausedEvent, queuedAtComplete, lastOp,
           cancelDebate, pc, aborted, stopped, server, wire, buffer, log,
           connections, cancels, lastEvent, enqueued, streams, input, timed >>

\* The variables of the timing policy taken alone.
timingVars == << input, timed >>

\* What the playback engine, followed over a whole debate, leaves alone.
otherVars ==
  << pc, aborted, stopped, server, wire, buffer, log, connections, cancels,
     lastEvent, enqueued, streams, input, timed >>

\* The variables of the stream adapter taken alone, besides pc and aborted.
adapterVars == << server, wire, buffer, log, connections, cancels >>

\* The variables of the stream that feeds the store.
streamVars == << pc, aborted >>

\* The variables of the playback engine: the store, the runtime's timers and the
\* history of the playback.
storeVars ==
  << eventQueue, isProcessingQueue, isPaused, queueProcessorTimeout, agents,
     oppositionAgent, phase, currentSpeakerId, currentSpeakerRole,
     currentEvaluatingAgentId, voteCasts, votingResultModal, isDebating,
     cancelDebate, timers, received, applied, pausedEvent, queuedAtComplete,
     lastOp >>

(***************************************************************************)
(* Timing policy.                                                          *)
(***************************************************************************)
\* content.split(/\s+/).filter(word => word.length > 0).length: the number of
\* maximal runs of non-whitespace characters.
wordCount(content) ==
  Cardinality({ i \in 1..Len(content) :
                  /\ content[i] \notin Whitespace
                  /\ (i = 1 \/ content[i - 1] \in Whitespace) })

Max(a, b) == IF a >= b THEN a ELSE b
Min(a, b) == IF a <= b THEN a ELSE b

\* (mutant: the upper clamp is missing)
calculateReadingTime_unclamped(content) ==
  Max(wordCount(content) * MsPerWord, MinReadingTime)
calculateReadingTime(content) ==
  LET readingTime == Max(wordCount(content) * MsPerWord, MinReadingTime)
  IN  Min(readingTime, MaxReadingTime)

(***************************************************************************)
(* Stream events.  data is the parsed payload; a field the payload does    *)
(* not carry is NoVal.                                                     *)
(***************************************************************************)
\* vote_tally absent: vote_tally?.in and vote_tally?.out are both undefined.
NoTally == [in |-> NoNum, out |-> NoNum]

NoData ==
  [ type |-> NoVal, timestamp |-> NoNum, agent_id |-> NoVal,
    agent_name |-> NoVal, role |-> NoVal, content |-> EmptyString, evaluating_agent_id |-> NoVal,
    evaluating_agent_name |-> NoVal, voter_id |-> NoVal, voter_name |-> NoVal,
    vote |-> NoVal, reasoning |-> NoVal, decision |-> NoVal, in_votes |-> NoNum,
    out_votes |-> NoNum, vote_tally |-> NoTally, old_agent_name |-> NoVal,
    new_agent_name |-> NoVal, reason |-> NoVal ]

SSEEvent(kind, data) == [event |-> kind, data |-> data]

MsgP1 ==
  SSEEvent("agent_message_complete",
           [NoData EXCEPT !.agent_id = "p1", !.agent_name = "Alice",
                          !.role = "proposition", !.content = Hi])
MsgOpp ==
  SSEEvent("agent_message_complete",
           [NoData EXCEPT !.agent_id = OppositionId, !.agent_name = OppositionName,
                          !.role = "opposition", !.content = NoWay])
MsgEmpty ==
  SSEEvent("agent_message_complete",
           [NoData EXCEPT !.agent_id = "p2", !.agent_name = "Bob",
                          !.role = "proposition", !.content = EmptyString])
VotingInitiated ==
  SSEEvent("voting_initiated",
           [NoData EXCEPT !.evaluating_agent_id = "p1",
                          !.evaluating_agent_name = "Alice"])
VoteCastIn ==
  SSEEvent("vote_cast",
           [NoData EXCEPT !.voter_id = "p2", !.voter_name = "Bob", !.vote = "in",
                          !.reasoning = "good"])
VotingComplete ==
  SSEEvent("voting_complete",
           [NoData EXCEPT !.evaluating_agent_id = "p1",
                          !.evaluating_agent_name = "Alice", !.decision = "switch",
                          !.in_votes = 1, !.out_votes = 1])
AgentSwitch ==
  SSEEvent("agent_switch",
           [NoData EXCEPT !.old_agent_name = "Alice", !.new_agent_name = "Carol",
                          !.reason = "voted out",
                          !.vote_tally = [in |-> 0, out |-> 2]])
DebateComplete == SSEEvent("debate_complete", NoData)
TimerUpdate == SSEEvent("timer_update", NoData)

\* The events of a voting round about p1: its opening, the votes of p2 (in) and
\* of p1 (out), and its two possible outcomes.
VoteCastOut ==
  SSEEvent("vote_cast",
           [NoData EXCEPT !.voter_id = "p1", !.voter_name = "Alice", !.vote = "out",
                          !.reasoning = "weak"])
VotingCompleteStay ==
  SSEEvent("voting_complete",
           [NoData EXCEPT !.evaluating_agent_id = "p1",
                          !.evaluating_agent_name = "Alice", !.decision = "stay",
                          !.in_votes = 2, !.out_votes = 0])
VotingPool ==
  { VotingInitiated, VoteCastIn, VoteCastOut, VotingComplete, VotingCompleteStay }

\* Payload variants.  A message whose agent_id names one agent of the roster and
\* whose agent_name names another.
MsgMixed ==
  SSEEvent("agent_message_complete",
           [NoData EXCEPT !.agent_id = "p1", !.agent_name = "Bob",
                          !.role = "proposition", !.content = Hi])
\* voting_complete with the counts in the nested vote_tally only, in both forms
\* (with different counts), in neither, and with a flat in_votes beside a
\* nested tally.
VotingCompleteNested ==
  SSEEvent("voting_complete",
           [NoData EXCEPT !.evaluating_agent_id = "p1",
                          !.evaluating_agent_name = "Alice", !.decision = "switch",
                          !.vote_tally = [in |-> 0, out |-> 2]])
VotingCompleteBoth ==
  SSEEvent("voting_complete",
           [NoData EXCEPT !.evaluating_agent_id = "p1",
                          !.evaluating_agent_name = "Alice", !.decision = "switch",
                          !.in_votes = 1, !.out_votes = 1,
                          !.vote_tally = [in |-> 0, out |-> 2]])
VotingCompleteNone ==
  SSEEvent("voting_complete",
           [NoData EXCEPT !.evaluating_agent_id = "p1",
                          !.evaluating_agent_name = "Alice", !.decision = "stay"])
VotingCompleteHalf ==
  SSEEvent("voting_complete",
           [NoData EXCEPT !.evaluating_agent_id = "p1",
                          !.evaluating_agent_name = "Alice", !.decision = "stay",
                          !.in_votes = 0,
                          !.vote_tally = [in |-> 1, out |-> 1]])
\* agent_switch as AgentSwitchData declares it, with the counts in the flat
\* in_votes and out_votes fields; and agent_switch with a nested tally and a
\* decision field that disagrees with the counts.
AgentSwitchFlat ==
  SSEEvent("agent_switch",
           [NoData EXCEPT !.old_agent_name = "Alice", !.new_agent_name = "Carol",
                          !.reason = "voted out",
                          !.in_votes = 0, !.out_votes = 2])
AgentSwitchStay ==
  SSEEvent("agent_switch",
           [NoData EXCEPT !.old_agent_name = "Alice", !.new_agent_name = "Carol",
                          !.reason = "voted out", !.decision = "stay",
                          !.vote_tally = [in |-> 0, out |-> 2]])
PayloadPool ==
  { MsgP1, MsgMixed, MsgOpp, VotingInitiated, VoteCastIn, VoteCastOut,
    VotingComplete, VotingCompleteNested, VotingCompleteBoth, VotingCompleteNone,
    VotingCompleteHalf, AgentSwitch, AgentSwitchFlat, AgentSwitchStay }

\* The events the stream may deliver.
EventPool ==
  { MsgP1, MsgOpp, MsgEmpty, VotingInitiated, VoteCastIn, VotingComplete,
    AgentSwitch, DebateComplete, TimerUpdate }

queueableEvents ==
  { "agent_message_complete", "voting_initiated", "vote_cast", "voting_complete",
    "agent_switch" }

(***************************************************************************)
(* The store as one value, so that the handlers compose the way the code   *)
(* calls them (get() reads it, set() replaces fields of it).               *)
(***************************************************************************)
Store ==
  [ eventQueue |-> eventQueue, isProcessingQueue |-> isProcessingQueue,
    isPaused |-> isPaused, queueProcessorTimeout |-> queueProcessorTimeout,
    agents |-> agents, oppositionAgent |-> oppositionAgent, phase |-> phase,
    currentSpeakerId |-> currentSpeakerId,
    currentSpeakerRole |-> currentSpeakerRole,
    currentEvaluatingAgentId |-> currentEvaluatingAgentId,
    voteCasts |-> voteCasts, votingResultModal |-> votingResultModal,
    isDebating |-> isDebating, cancelDebate |-> cancelDebate, timers |-> timers,
    applied |-> applied ]

Commit(s) ==
  /\ eventQueue' = s.eventQueue
  /\ isProcessingQueue' = s.isProcessingQueue
  /\ isPaused' = s.isPaused
  /\ queueProcessorTimeout' = s.queueProcessorTimeout
  /\ agents' = s.agents
  /\ oppositionAgent' = s.oppositionAgent
  /\ phase' = s.phase
  /\ currentSpeakerId' = s.currentSpeakerId
  /\ currentSpeakerRole' = s.currentSpeakerRole
  /\ currentEvaluatingAgentId' = s.currentEvaluatingAgentId
  /\ voteCasts' = s.voteCasts
  /\ votingResultModal' = s.votingResultModal
  /\ isDebating' = s.isDebating
  /\ cancelDebate' = s.cancelDebate
  /\ timers' = s.timers
  /\ applied' = s.applied

\* voteCast: null
NoVoteCast == [vote |-> NoVal, reasoning |-> NoVal]

\* An agent as fetchAgents stores it; its absent presentation fields read as
\* their falsy values.
InitialAgent ==
  [ streamingContent |-> EmptyString, isSpeaking |-> FALSE, voteStatus |-> NoVal,
    voteCast |-> NoVoteCast ]

\* oppositionAgent: null
NoOpposition ==
  [ exists |-> FALSE, id |-> NoVal, name |-> NoVal,
    streamingContent |-> EmptyString, isSpeaking |-> FALSE ]

InitialOpposition ==
  [ exists |-> TRUE, id |-> OppositionId, name |-> OppositionName,
    streamingContent |-> EmptyString, isSpeaking |-> FALSE ]

closedModal ==
  [ isOpen |-> FALSE, agentName |-> "", decision |-> NoVal, inVotes |-> 0,
    outVotes |-> 0, totalVotes |-> 0, newAgentName |-> NoVal, reason |-> NoVal ]

(***************************************************************************)
(* The runtime's timers.  A pending timer is a record: its handle (id),    *)
(* which callback it runs (kind), what the callback's closure captured     *)
(* (role), its delay, and the arrival index of the event it paces (of).        *)
(***************************************************************************)
TimerIds(ts) == { t.id : t \in ts }

\* setTimeout returns a handle distinct from every live handle: from the pending
\* timers' and from the one the store still holds.
NewHandle(s) ==
  CHOOSE i \in 1..(Cardinality(s.timers) + 2) :
    /\ i \notin TimerIds(s.timers)
    /\ i # s.queueProcessorTimeout
    /\ \A j \in 1..(i - 1) : j \in TimerIds(s.timers) \/ j = s.queueProcessorTimeout

setTimeout(s, kind, role, delay, of) ==
  [ s EXCEPT !.timers = @ \cup { [ id |-> NewHandle(s), kind |-> kind,
                                    role |-> role, delay |-> delay, of |-> of ] } ]

\* (mutant: the timer is not cancelled)
clearTimeout_noop(ts, handle) == ts
\* clearTimeout(handle): a no-op for a handle that has fired or was cleared.
clearTimeout(ts, handle) == { t \in ts : t.id # handle }

DisplayTimers(ts) == { t \in ts : t.kind \in {"message", "vote_cast"} }
RecheckTimers(ts) == { t \in ts : t.kind = "recheck" }

(***************************************************************************)
(* Playback queue.                                                         *)
(***************************************************************************)
\* (mutant: the new event is put at the head of the queue)
updatedQueue_front(q, queuedEvent) == << queuedEvent >> \o q
\* const updatedQueue = [...eventQueue, queuedEvent]
updatedQueue(q, queuedEvent) == Append(q, queuedEvent)
\* const [currentEvent, ...remainingQueue] = eventQueue
\* (mutant: the newest event is taken instead of the oldest)
currentEvent_last(q) == q[Len(q)]
currentEvent(q) == Head(q)
remainingQueue(q) == Tail(q)

\* { type: event.event, timestamp: Date.now(), ...event.data }: the payload is
\* spread last, so a field of the payload named type or timestamp replaces the
\* event's kind or the arrival time.  Date.now() is the arrival clock of the
\* model.  seq is a history tag, not a field of the code: the arrival index.
queuedEvent(event, now) ==
  [ type |-> IF event.data.type # NoVal THEN event.data.type ELSE event.event,
    timestamp |-> IF event.data.timestamp # NoNum THEN event.data.timestamp
                                                  ELSE now,
    seq |-> now,
    agent_id |-> event.data.agent_id, agent_name |-> event.data.agent_name,
    role |-> event.data.role, content |-> event.data.content,
    evaluating_agent_id |-> event.data.evaluating_agent_id,
    evaluating_agent_name |-> event.data.evaluating_agent_name,
    voter_id |-> event.data.voter_id, voter_name |-> event.data.voter_name,
    vote |-> event.data.vote, reasoning |-> event.data.reasoning,
    decision |-> event.data.decision, in_votes |-> event.data.in_votes,
    out_votes |-> event.data.out_votes, vote_tally |-> event.data.vote_tally,
    old_agent_name |-> event.data.old_agent_name,
    new_agent_name |-> event.data.new_agent_name, reason |-> event.data.reason ]

(***************************************************************************)
(* processEventQueue and the cases of its switch.  Each case takes the     *)
(* store after the head was dequeued and returns the store the case        *)
(* leaves.                                                                 *)
(***************************************************************************)
\* (mutant: the agents' displayed content is left as it is)
clearedAgents_kept(as) == as
\* agents.map(agent => ({ ...agent, streamingContent: "", isSpeaking: false }))
clearedAgents(as) ==
  [ a \in DOMAIN as |->
      [ as[a] EXCEPT !.streamingContent = EmptyString, !.isSpeaking = FALSE ] ]

\* oppositionAgent ? { ...oppositionAgent, streamingContent: "", isSpeaking: false }
\*                 : null
clearedOpposition(opp) ==
  IF opp.exists
    THEN [ opp EXCEPT !.streamingContent = EmptyString, !.isSpeaking = FALSE ]
    ELSE opp

\* agent.id === agent_id || agent.name === agent_name
isTarget(a, ev) == a = ev.agent_id \/ AgentName[a] = ev.agent_name

case_agent_message_complete(s, ev) ==
  IF ev.content = EmptyString
    THEN s                                  \* if (!content) break;
    ELSE
      LET readingTime == calculateReadingTime(ev.content)
          shown ==
            IF ev.role = "opposition" /\ s.oppositionAgent.exists
              THEN [ s EXCEPT
                       !.agents = clearedAgents(@),
                       !.oppositionAgent =
                          [ @ EXCEPT !.streamingContent = ev.content,
                                     !.isSpeaking = TRUE ],
                       !.currentSpeakerId = ev.agent_id,
                       !.currentSpeakerRole = "opposition" ]
              ELSE [ s EXCEPT
                       !.agents =
                          [ a \in DOMAIN @ |->
                              IF isTarget(a, ev)
                                THEN [ @[a] EXCEPT !.streamingContent = ev.content,
                                                   !.isSpeaking = TRUE ]
                                ELSE [ @[a] EXCEPT !.streamingContent = EmptyString,
                                                   !.isSpeaking = FALSE ] ],
                       !.oppositionAgent = clearedOpposition(@),
                       !.currentSpeakerId = ev.agent_id,
                       !.currentSpeakerRole = "proposition" ]
          timeout == NewHandle(shown)
      IN  [ setTimeout(shown, "message", ev.role, readingTime, ev.seq)
              EXCEPT !.queueProcessorTimeout = timeout ]

case_voting_initiated(s, ev) ==
  [ s EXCEPT
      !.phase = "voting",
      !.currentEvaluatingAgentId = ev.evaluating_agent_id,
      !.agents =
         [ a \in DOMAIN @ |->
             [ @[a] EXCEPT !.voteStatus = NoVal, !.voteCast = NoVoteCast,
                           !.streamingContent = EmptyString,
                           !.isSpeaking = FALSE ] ],
      !.oppositionAgent = clearedOpposition(@),
      !.voteCasts = << >>,
      !.currentSpeakerId = NoVal,
      !.currentSpeakerRole = NoVal ]

\* x || fallback, on strings
OrElse(x, fallback) == IF x = NoVal \/ x = "" THEN fallback ELSE x

\* The VoteCast record, without its wall-clock timestamp.
newVoteCast(ev) ==
  [ voter_id |-> OrElse(ev.voter_id, ""), voter_name |-> OrElse(ev.voter_name, ""),
    vote |-> OrElse(ev.vote, "out"), reasoning |-> OrElse(ev.reasoning, "") ]

\* (mutant: a vote is paced like a message, by the reading time of its reasoning)
case_vote_cast_read(s, ev) ==
  LET voted ==
        [ s EXCEPT
            !.voteCasts = Append(@, newVoteCast(ev)),
            !.agents =
               [ a \in DOMAIN @ |->
                   IF a = ev.voter_id
                     THEN [ @[a] EXCEPT !.voteCast =
                              [ vote |-> OrElse(ev.vote, "out"),
                                reasoning |-> OrElse(ev.reasoning, "") ] ]
                     ELSE @[a] ] ]
      timeout == NewHandle(voted)
  IN  [ setTimeout(voted, "vote_cast", NoVal, calculateReadingTime(EmptyString),
                   ev.seq)
          EXCEPT !.queueProcessorTimeout = timeout ]
\* (mutant: the other agents' votes are cleared when a vote is shown)
case_vote_cast_alone(s, ev) ==
  LET voted ==
        [ s EXCEPT
            !.voteCasts = Append(@, newVoteCast(ev)),
            !.agents =
               [ a \in DOMAIN @ |->
                   IF a = ev.voter_id
                     THEN [ @[a] EXCEPT !.voteCast =
                              [ vote |-> OrElse(ev.vote, "out"),
                                reasoning |-> OrElse(ev.reasoning, "") ] ]
                     ELSE [ @[a] EXCEPT !.voteCast = NoVoteCast ] ] ]
      timeout == NewHandle(voted)
  IN  [ setTimeout(voted, "vote_cast", NoVal, VoteCastDelay, ev.seq)
          EXCEPT !.queueProcessorTimeout = timeout ]
\* (mutant: the new vote replaces the list instead of extending it)
case_vote_cast_replacing(s, ev) ==
  LET voted == [ s EXCEPT !.voteCasts = << newVoteCast(ev) >> ]
      timeout == NewHandle(voted)
  IN  [ setTimeout(voted, "vote_cast", NoVal, VoteCastDelay, ev.seq)
          EXCEPT !.queueProcessorTimeout = timeout ]
case_vote_cast(s, ev) ==
  LET voted ==
        [ s EXCEPT
            !.voteCasts = Append(@, newVoteCast(ev)),
            !.agents =
               [ a \in DOMAIN @ |->
                   IF a = ev.voter_id
                     THEN [ @[a] EXCEPT !.voteCast =
                              [ vote |-> OrElse(ev.vote, "out"),
                                reasoning |-> OrElse(ev.reasoning, "") ] ]
                     ELSE @[a] ] ]
      timeout == NewHandle(voted)
  IN  [ setTimeout(voted, "vote_cast", NoVal, VoteCastDelay, ev.seq)
          EXCEPT !.queueProcessorTimeout = timeout ]

\* a ?? b ?? 0, on numbers
Coalesce(a, b) == IF a # NoNum THEN a ELSE IF b # NoNum THEN b ELSE 0

\* (mutant: the nested tally is read before the flat fields)
case_voting_complete_nestedFirst(s, ev) ==
  LET inVotes == Coalesce(ev.vote_tally.in, ev.in_votes)
      outVotes == Coalesce(ev.vote_tally.out, ev.out_votes)
  IN  [ s EXCEPT
          !.votingResultModal =
             [ isOpen |-> TRUE,
               agentName |-> OrElse(ev.evaluating_agent_name, "Agent"),
               decision |-> ev.decision, inVotes |-> inVotes,
               outVotes |-> outVotes, totalVotes |-> inVotes + outVotes,
               newAgentName |-> NoVal, reason |-> NoVal ],
          !.agents =
             [ a \in DOMAIN @ |->
                 IF a = ev.evaluating_agent_id
                   THEN [ @[a] EXCEPT
                            !.voteCast = NoVoteCast,
                            !.voteStatus =
                               IF ev.decision = "switch" THEN "out" ELSE "in" ]
                   ELSE [ @[a] EXCEPT !.voteCast = NoVoteCast ] ],
          !.phase = "debating",
          !.currentEvaluatingAgentId = NoVal,
          !.isPaused = TRUE,
          !.isProcessingQueue = FALSE ]
\* (mutant: the votes cast in the round are left on the agents)
case_voting_complete_keeping(s, ev) ==
  LET inVotes == Coalesce(ev.in_votes, ev.vote_tally.in)
      outVotes == Coalesce(ev.out_votes, ev.vote_tally.out)
  IN  [ s EXCEPT
          !.votingResultModal =
             [ isOpen |-> TRUE,
               agentName |-> OrElse(ev.evaluating_agent_name, "Agent"),
               decision |-> ev.decision, inVotes |-> inVotes,
               outVotes |-> outVotes, totalVotes |-> inVotes + outVotes,
               newAgentName |-> NoVal, reason |-> NoVal ],
          !.agents =
             [ a \in DOMAIN @ |->
                 IF a = ev.evaluating_agent_id
                   THEN [ @[a] EXCEPT
                            !.voteStatus =
                               IF ev.decision = "switch" THEN "out" ELSE "in" ]
                   ELSE @[a] ],
          !.phase = "debating",
          !.currentEvaluatingAgentId = NoVal,
          !.isPaused = TRUE,
          !.isProcessingQueue = FALSE ]
case_voting_complete(s, ev) ==
  LET inVotes == Coalesce(ev.in_votes, ev.vote_tally.in)
      outVotes == Coalesce(ev.out_votes, ev.vote_tally.out)
      totalVotes == inVotes + outVotes
  IN  [ s EXCEPT
          !.votingResultModal =
             [ isOpen |-> TRUE,
               agentName |-> OrElse(ev.evaluating_agent_name, "Agent"),
               decision |-> ev.decision, inVotes |-> inVotes,
               outVotes |-> outVotes, totalVotes |-> totalVotes,
               newAgentName |-> NoVal, reason |-> NoVal ],
          !.agents =
             [ a \in DOMAIN @ |->
                 IF a = ev.evaluating_agent_id
                   THEN [ @[a] EXCEPT
                            !.voteCast = NoVoteCast,
                            !.voteStatus =
                               IF ev.decision = "switch" THEN "out" ELSE "in" ]
                   ELSE [ @[a] EXCEPT !.voteCast = NoVoteCast ] ],
          !.phase = "debating",
          !.currentEvaluatingAgentId = NoVal,
          !.isPaused = TRUE,
          !.isProcessingQueue = FALSE ]

case_agent_switch_marking(s, ev) ==
  LET inVotes == Coalesce(ev.vote_tally.in, NoNum)
      outVotes == Coalesce(ev.vote_tally.out, NoNum)
      totalVotes == inVotes + outVotes
      decision == IF outVotes > inVotes THEN "switch" ELSE "stay"
  IN  [ s EXCEPT
          !.votingResultModal =
             [ isOpen |-> TRUE,
               agentName |-> OrElse(ev.old_agent_name, "Agent"),
               decision |-> decision, inVotes |-> inVotes, outVotes |-> outVotes,
               totalVotes |-> totalVotes, newAgentName |-> ev.new_agent_name,
               reason |-> OrElse(ev.reason, "") ],
          !.agents = [ a \in DOMAIN @ |->
                         [ @[a] EXCEPT !.voteCast = NoVoteCast,
                                       !.voteStatus = NoVal ] ],
          !.isPaused = TRUE,
          !.isProcessingQueue = FALSE ]

case_agent_switch(s, ev) ==
  LET inVotes == Coalesce(ev.vote_tally.in, NoNum)
      outVotes == Coalesce(ev.vote_tally.out, NoNum)
      totalVotes == inVotes + outVotes
      decision == IF outVotes > inVotes THEN "switch" ELSE "stay"
  IN  [ s EXCEPT
          !.votingResultModal =
             [ isOpen |-> TRUE,
               agentName |-> OrElse(ev.old_agent_name, "Agent"),
               decision |-> decision, inVotes |-> inVotes, outVotes |-> outVotes,
               totalVotes |-> totalVotes, newAgentName |-> ev.new_agent_name,
               reason |-> OrElse(ev.reason, "") ],
          !.agents = [ a \in DOMAIN @ |-> [ @[a] EXCEPT !.voteCast = NoVoteCast ] ],
          !.isPaused = TRUE,
          !.isProcessingQueue = FALSE ]

RECURSIVE processEventQueue(_)
processEventQueue(s) ==
  IF s.isPaused
    THEN [ s EXCEPT !.isProcessingQueue = FALSE ]
  ELSE IF Len(s.eventQueue) = 0
    THEN [ s EXCEPT !.isProcessingQueue = FALSE ]
  ELSE
    LET ev == currentEvent(s.eventQueue)
        dequeued ==
          [ s EXCEPT !.isProcessingQueue = TRUE,
                     !.eventQueue = remainingQueue(@),
                     !.applied = Append(@, ev.seq) ]
    IN  CASE ev.type = "agent_message_complete" ->
               case_agent_message_complete(dequeued, ev)
          [] ev.type = "voting_initiated" ->
               processEventQueue(case_voting_initiated(dequeued, ev))
          [] ev.type = "vote_cast" -> case_vote_cast(dequeued, ev)
          [] ev.type = "voting_complete" -> case_voting_complete(dequeued, ev)
          [] ev.type = "agent_switch" -> case_agent_switch(dequeued, ev)
          [] OTHER -> processEventQueue(dequeued)

(***************************************************************************)
(* The store's handlers, as functions of the store.                        *)
(***************************************************************************)
\* (mutant: debate_complete also drops the events still queued)
case_debate_complete_clearing(s) ==
  [ s EXCEPT !.isDebating = FALSE, !.currentSpeakerId = NoVal,
             !.currentSpeakerRole = NoVal, !.eventQueue = << >> ]
\* The else-if branch of handleSSEEvent for debate_complete.
case_debate_complete(s) ==
  [ s EXCEPT !.isDebating = FALSE, !.currentSpeakerId = NoVal,
             !.currentSpeakerRole = NoVal ]

\* (mutant: every kind but debate_complete is queued)
handleSSEEvent_queueingAll(s, event, now) ==
  IF event.event # "debate_complete"
    THEN
      LET queued ==
            [ s EXCEPT !.eventQueue = updatedQueue(@, queuedEvent(event, now)) ]
      IN  IF ~queued.isProcessingQueue THEN processEventQueue(queued) ELSE queued
    ELSE case_debate_complete(s)
handleSSEEvent(s, event, now) ==
  IF event.event \in queueableEvents
    THEN
      LET queued ==
            [ s EXCEPT !.eventQueue = updatedQueue(@, queuedEvent(event, now)) ]
      IN  IF ~queued.isProcessingQueue THEN processEventQueue(queued) ELSE queued
  ELSE IF event.event = "debate_complete"
    THEN case_debate_complete(s)
  ELSE s

skipCurrentEvent(s) ==
  LET cancelled ==
        IF s.queueProcessorTimeout # NoTimer
          THEN [ s EXCEPT !.timers = clearTimeout(@, s.queueProcessorTimeout),
                          !.queueProcessorTimeout = NoTimer ]
          ELSE s
      cleared ==
        [ cancelled EXCEPT !.agents = clearedAgents(@),
                           !.oppositionAgent = clearedOpposition(@) ]
  IN  processEventQueue(cleared)

\* (mutant: pausing also clears what is on display)
togglePause_clearing(s) ==
  IF s.isPaused
    THEN processEventQueue([ s EXCEPT !.isPaused = FALSE ])
    ELSE [ s EXCEPT !.timers = clearTimeout(@, s.queueProcessorTimeout),
                    !.queueProcessorTimeout = NoTimer,
                    !.agents = clearedAgents(@),
                    !.oppositionAgent = clearedOpposition(@),
                    !.isPaused = TRUE, !.isProcessingQueue = FALSE ]
\* (mutant: pausing leaves the driver marked as processing)
togglePause_processing(s) ==
  IF s.isPaused
    THEN processEventQueue([ s EXCEPT !.isPaused = FALSE ])
    ELSE
      LET cancelled ==
            IF s.queueProcessorTimeout # NoTimer
              THEN [ s EXCEPT !.timers = clearTimeout(@, s.queueProcessorTimeout),
                              !.queueProcessorTimeout = NoTimer ]
              ELSE s
      IN  [ cancelled EXCEPT !.isPaused = TRUE ]
togglePause(s) ==
  IF s.isPaused
    THEN processEventQueue([ s EXCEPT !.isPaused = FALSE ])
    ELSE
      LET cancelled ==
            IF s.queueProcessorTimeout # NoTimer
              THEN [ s EXCEPT !.timers = clearTimeout(@, s.queueProcessorTimeout),
                              !.queueProcessorTimeout = NoTimer ]
              ELSE s
      IN  [ cancelled EXCEPT !.isPaused = TRUE, !.isProcessingQueue = FALSE ]

\* (mutant: the display timer is left pending)
stopDebateStream_keepingTimer(s) ==
  [ s EXCEPT !.isDebating = FALSE, !.cancelDebate = NoStream,
             !.eventQueue = << >>, !.isProcessingQueue = FALSE,
             !.isPaused = FALSE, !.queueProcessorTimeout = NoTimer ]
\* (mutant: isPaused is set from the session's liveness instead of being reset)
stopDebateStream_flipping(s) ==
  [ s EXCEPT !.timers = clearTimeout(@, s.queueProcessorTimeout),
             !.isPaused = s.isDebating,
             !.isDebating = FALSE, !.cancelDebate = NoStream,
             !.eventQueue = << >>, !.isProcessingQueue = FALSE,
             !.queueProcessorTimeout = NoTimer ]
\* stopDebateStream, as far as the store goes; its call of cancelDebate() acts on
\* the stream, and its request to the backend is fire-and-forget (a failure is
\* caught and logged).
stopDebateStream(s) ==
  LET cancelled ==
        IF s.queueProcessorTimeout # NoTimer
          THEN [ s EXCEPT !.timers = clearTimeout(@, s.queueProcessorTimeout) ]
          ELSE s
  IN  [ cancelled EXCEPT !.isDebating = FALSE, !.cancelDebate = NoStream,
                         !.eventQueue = << >>, !.isProcessingQueue = FALSE,
                         !.isPaused = FALSE, !.queueProcessorTimeout = NoTimer ]

\* reset; topic and duration are not part of the model.  The stream is left as
\* it is.
reset(s) ==
  LET cancelled ==
        IF s.queueProcessorTimeout # NoTimer
          THEN [ s EXCEPT !.timers = clearTimeout(@, s.queueProcessorTimeout) ]
          ELSE s
  IN  [ cancelled EXCEPT !.isDebating = FALSE, !.phase = "debating",
                         !.currentSpeakerId = NoVal, !.currentSpeakerRole = NoVal,
                         !.currentEvaluatingAgentId = NoVal,
                         !.eventQueue = << >>, !.isProcessingQueue = FALSE,
                         !.isPaused = FALSE, !.queueProcessorTimeout = NoTimer,
                         !.voteCasts = << >> ]

\* (mutant: the error callback stops the playback as stopDebateStream does)
onError_stopping(s) == stopDebateStream(s)
\* The onError callback startDebate gives to streamDebate; the error is logged.
onError(s) == [ s EXCEPT !.isDebating = FALSE, !.cancelDebate = NoStream ]

\* The onComplete callback startDebate gives to streamDebate.
onComplete(s) == [ s EXCEPT !.isDebating = FALSE, !.cancelDebate = NoStream ]

\* (mutant: the phase is not looked at)
shouldResume_anyPhase(currentState) ==
  /\ Len(currentState.eventQueue) > 0
  /\ ~currentState.isProcessingQueue
\* The condition under which closeVotingResultModal schedules its re-check,
\* read from the state before the modal was reset.
shouldResume(currentState) ==
  /\ currentState.phase = "debating"
  /\ Len(currentState.eventQueue) > 0
  /\ ~currentState.isProcessingQueue

\* (mutant: the modal is hidden and keeps what it showed)
closeVotingResultModal_hiding(s) ==
  LET closed == [ s EXCEPT !.votingResultModal.isOpen = FALSE, !.isPaused = FALSE ]
  IN  IF shouldResume(s)
        THEN setTimeout(closed, "recheck", NoVal, RecheckDelay, 0)
        ELSE closed
closeVotingResultModal(s) ==
  LET closed == [ s EXCEPT !.votingResultModal = closedModal, !.isPaused = FALSE ]
  IN  IF shouldResume(s)
        THEN setTimeout(closed, "recheck", NoVal, RecheckDelay, 0)
        ELSE closed

(***************************************************************************)
(* Timer callbacks.  s is the store when the timer fires.                  *)
(***************************************************************************)
\* (mutant: the callback advances the queue without clearing the display)
messageTimeout_keeping(s, role) == processEventQueue(s)
\* The callback of a message's display timer; role is the one its closure holds.
messageTimeout(s, role) ==
  LET cleared ==
        IF role = "opposition" /\ s.oppositionAgent.exists
          THEN [ s EXCEPT !.oppositionAgent =
                   [ @ EXCEPT !.streamingContent = EmptyString,
                              !.isSpeaking = FALSE ] ]
          ELSE [ s EXCEPT !.agents = clearedAgents(@) ]
  IN  processEventQueue(cleared)

\* The callback of a vote's display timer.
voteCastTimeout(s) == processEventQueue(s)

\* (mutant: the deferred callback resumes without re-checking the flags)
recheckGuard_always(updatedState) == TRUE
\* if (!updatedState.isPaused && !updatedState.isProcessingQueue)
recheckGuard(updatedState) ==
  ~updatedState.isPaused /\ ~updatedState.isProcessingQueue

\* The deferred re-check of closeVotingResultModal.
recheckTimeout(s) == IF recheckGuard(s) THEN processEventQueue(s) ELSE s

runTimer(s, t) ==
  CASE t.kind = "message" -> messageTimeout(s, t.role)
    [] t.kind = "vote_cast" -> voteCastTimeout(s)
    [] t.kind = "recheck" -> recheckTimeout(s)

(***************************************************************************)
(* Initial state: the store as created, with the roster loaded and the     *)
(* debate started (startDebate sets isDebating before the first event).    *)
(***************************************************************************)
InitOppositions == { InitialOpposition }

\* No event has been dequeued.
NoEvent == queuedEvent(SSEEvent(NoVal, NoData), 0)

\* No text is being timed.
NoInput == [ words |-> 0, gap |-> 1, lead |-> 0 ]

StoreInit ==
  /\ eventQueue = << >>
  /\ isProcessingQueue = FALSE
  /\ isPaused = FALSE
  /\ queueProcessorTimeout = NoTimer
  /\ agents = [ a \in AgentIds |-> InitialAgent ]
  /\ oppositionAgent \in InitOppositions
  /\ phase = "debating"
  /\ currentSpeakerId = NoVal
  /\ currentSpeakerRole = NoVal
  /\ currentEvaluatingAgentId = NoVal
  /\ voteCasts = << >>
  /\ votingResultModal = closedModal
  /\ isDebating = TRUE
  /\ cancelDebate = 1
  /\ timers = {}
  /\ received = 0
  /\ applied = << >>
  /\ pausedEvent = 0
  /\ queuedAtComplete = << >>
  /\ lastOp = [ op |-> "create", display |-> "none", dequeued |-> 0 ]

(***************************************************************************)
(* The stream adapter of src/frontend/src/services/debateStream.ts.  Text  *)
(* is a sequence of characters.                                            *)
(***************************************************************************)
Min2(S) == CHOOSE i \in S : \A j \in S : i <= j
Max2(S) == CHOOSE i \in S : \A j \in S : j <= i

\* str.split(sep) for a non-empty separator: the pieces between the leftmost
\* non-overlapping occurrences of sep.
RECURSIVE split(_, _)
split(str, sep) ==
  LET hits == { i \in 1..(Len(str) - Len(sep) + 1) :
                  SubSeq(str, i, i + Len(sep) - 1) = sep }
  IN  IF hits = {}
        THEN << str >>
        ELSE LET i == Min2(hits)
             IN  << SubSeq(str, 1, i - 1) >>
                   \o split(SubSeq(str, i + Len(sep), Len(str)), sep)

\* The characters String.prototype.trim removes, among those of the model.
TrimSpace == Whitespace \cup {"\r"}

trim(str) ==
  LET kept == { i \in 1..Len(str) : str[i] \notin TrimSpace }
  IN  IF kept = {} THEN << >> ELSE SubSeq(str, Min2(kept), Max2(kept))

startsWith(line, prefix) ==
  Len(line) >= Len(prefix) /\ SubSeq(line, 1, Len(prefix)) = prefix

slice(line, n) == SubSeq(line, n + 1, Len(line))

EventPrefix == << "e", "v", "e", "n", "t", ":" >>
DataPrefix == << "d", "a", "t", "a", ":" >>
DefaultEventType == << "m", "e", "s", "s", "a", "g", "e" >>

\* JSON.parse(data) succeeds: the JSON texts of the model are the numbers
\* written with these digits; any other text makes JSON.parse throw.
Digits == { "1", "2" }
isJSON(data) == data # << >> /\ \A i \in 1..Len(data) : data[i] \in Digits

\* parseSSEEvent returned null.
NoParsed == [ parsed |-> FALSE, event |-> << >>, json |-> FALSE, data |-> << >> ]

\* The for loop of parseSSEEvent over the lines from the i-th on; a line that
\* is neither an event: nor a data: line changes nothing.
RECURSIVE scanLines(_, _, _, _)
scanLines(lines, i, eventType, data) ==
  IF i > Len(lines)
    THEN [ eventType |-> eventType, data |-> data ]
    ELSE LET line == lines[i]
         IN  IF startsWith(line, EventPrefix)
               THEN scanLines(lines, i + 1, trim(slice(line, 6)), data)
             ELSE IF startsWith(line, DataPrefix)
               THEN scanLines(lines, i + 1, eventType, trim(slice(line, 5)))
             ELSE scanLines(lines, i + 1, eventType, data)

\* The event has the parsed JSON value as data (json is TRUE) or, when
\* JSON.parse throws, the raw text.
parseSSEEvent(eventBlock) ==
  LET lines == split(eventBlock, << "\n" >>)
      scanned == scanLines(lines, 1, DefaultEventType, << >>)
  IN  IF scanned.data = << >>
        THEN NoParsed
        ELSE [ parsed |-> TRUE, event |-> scanned.eventType,
               json |-> isJSON(scanned.data), data |-> scanned.data ]

\* (mutant: the incomplete block at the end of the buffer is not kept)
parseSSEBuffer_forgetting(buf) ==
  LET events == split(buf, << "\n", "\n" >>)
      blocks == SubSeq(events, 1, Len(events) - 1)
      parsed == [ i \in 1..Len(blocks) |->
                    IF trim(blocks[i]) = << >> THEN NoParsed
                                                ELSE parseSSEEvent(blocks[i]) ]
  IN  [ remaining |-> << >>, emitted |-> SelectSeq(parsed, LAMBDA e : e.parsed) ]
\* parseSSEBuffer: the text it returns (remaining) and the events it hands to
\* onEvent, in order (emitted).
parseSSEBuffer(buf) ==
  LET events == split(buf, << "\n", "\n" >>)
      remaining == events[Len(events)]
      blocks == SubSeq(events, 1, Len(events) - 1)
      parsed == [ i \in 1..Len(blocks) |->
                    IF trim(blocks[i]) = << >> THEN NoParsed
                                                ELSE parseSSEEvent(blocks[i]) ]
  IN  [ remaining |-> remaining,
        emitted |-> SelectSeq(parsed, LAMBDA e : e.parsed) ]

\* An entry of the log of callbacks.
Call(cb, e) == [ cb |-> cb, event |-> e.event, json |-> e.json, data |-> e.data ]
onEventCalls(emitted) == [ i \in 1..Len(emitted) |-> Call("onEvent", emitted[i]) ]

\* (mutant: an aborted request is reported like any other failure)
catch_reporting(lg, name) ==
  lg \o << Call("onError", NoParsed), Call("onComplete", NoParsed) >>
\* (mutant: the failure is reported twice)
catch_twice(lg, name) ==
  IF name = "AbortError"
    THEN lg
    ELSE lg \o << Call("onError", NoParsed), Call("onError", NoParsed),
                  Call("onComplete", NoParsed) >>
\* The catch clause of run(): the callbacks it invokes for an error of this name.
catch(lg, name) ==
  IF name = "AbortError"
    THEN lg
    ELSE lg \o << Call("onError", NoParsed), Call("onComplete", NoParsed) >>

\* The frames a server sends: an event with a name and JSON data, an event
\* without a name whose data is not JSON, and a comment (keep-alive) frame that
\* carries no event.
FrameA ==
  << "e", "v", "e", "n", "t", ":", "a", "\n", "d", "a", "t", "a", ":", "1",
     "\n", "\n" >>
FrameB ==
  << "d", "a", "t", "a", ":", " ", "x", "\n", "\n" >>
FramePing ==
  << ":", " ", "k", "\n", "\n" >>
FrameText == [ A |-> FrameA, B |-> FrameB, Ping |-> FramePing ]
FrameNames == { "A", "B", "Ping" }

\* What a frame stands for.
FrameEvent ==
  [ A |-> << [ parsed |-> TRUE, event |-> << "a" >>, json |-> TRUE,
               data |-> << "1" >> ] >>,
    B |-> << [ parsed |-> TRUE, event |-> DefaultEventType, json |-> FALSE,
               data |-> << "x" >> ] >>,
    Ping |-> << >> ]

RECURSIVE WireOf(_)
WireOf(frames) ==
  IF frames = << >> THEN << >>
                    ELSE FrameText[Head(frames)] \o WireOf(Tail(frames))

RECURSIVE EventsOf(_)
EventsOf(frames) ==
  IF frames = << >> THEN << >>
                    ELSE FrameEvent[Head(frames)] \o EventsOf(Tail(frames))

FrameSeqs == UNION { [ 1..n -> FrameNames ] : n \in 0..MaxFrames }

\* What the server and the transport will do: how the request is answered, the
\* frames sent, and whether the stream then closes or a read fails.
Servers ==
  [ response : {"ok"}, frames : FrameSeqs, ending : {"close", "error"} ]
    \cup [ response : {"http_error", "no_body", "network_error"},
           frames : { << >> }, ending : {"close"} ]

\* No stream adapter is being followed.
NoServer == [ response |-> "ok", frames |-> << >>, ending |-> "close" ]

AdapterIdle ==
  /\ server = NoServer
  /\ wire = << >>
  /\ buffer = << >>
  /\ log = << >>
  /\ connections = 1
  /\ cancels = 0

\* The stream startDebate opened is being read and has not been cancelled.
StreamInit ==
  /\ pc = "read"
  /\ aborted = FALSE
  /\ stopped = FALSE

Init ==
  /\ StoreInit
  /\ StreamInit
  /\ AdapterIdle
  /\ lastEvent = NoEvent
  /\ enqueued = << >>
  /\ streams = << >>
  /\ input = NoInput
  /\ timed = NoNum

(***************************************************************************)
(* Actions: one per handler call or callback run.                          *)
(***************************************************************************)
\* The arrival indices of the events of a queue.
Arrivals(q) == [ i \in 1..Len(q) |-> q[i].seq ]

\* What the display timer pending now paces: "message", "vote_cast" or "none".
OnDisplay ==
  IF DisplayTimers(timers) = {}
    THEN "none"
    ELSE (CHOOSE t \in DisplayTimers(timers) : TRUE).kind

\* The history of a step: which handler ran, what was on display when it was
\* called, and how many events it dequeued.
Record(op) ==
  lastOp' = [ op |-> op, display |-> OnDisplay,
              dequeued |-> Len(applied') - Len(applied) ]

\* The stream delivers its next event.
HandleSSEEvent ==
  \E event \in EventPool :
    /\ received < MaxEvents
    /\ Commit(handleSSEEvent(Store, event, received + 1))
    /\ received' = received + 1
    /\ queuedAtComplete' = IF event.event = "debate_complete"
                             THEN Arrivals(eventQueue)
                             ELSE queuedAtComplete
    /\ Record(event.event)
    /\ UNCHANGED pausedEvent
    /\ UNCHANGED otherVars

\* A pending timer expires and its callback runs.
TimerFires ==
  \E t \in timers :
    /\ Commit(runTimer([ Store EXCEPT !.timers = @ \ {t} ], t))
    /\ Record(t.kind)
    /\ UNCHANGED << received, pausedEvent, queuedAtComplete >>
    /\ UNCHANGED otherVars

SkipCurrentEvent ==
  /\ Commit(skipCurrentEvent(Store))
  /\ pausedEvent' = 0
  /\ Record("skipCurrentEvent")
  /\ UNCHANGED << received, queuedAtComplete >>
  /\ UNCHANGED otherVars

TogglePause ==
  /\ Commit(togglePause(Store))
  /\ pausedEvent' = IF ~isPaused /\ DisplayTimers(timers) # {}
                      THEN (CHOOSE t \in DisplayTimers(timers) : TRUE).of
                      ELSE 0
  /\ Record("togglePause")
  /\ UNCHANGED << received, queuedAtComplete >>
  /\ UNCHANGED otherVars

CloseVotingResultModal ==
  /\ shouldResume(Store) => Cardinality(RecheckTimers(timers)) < MaxRecheck
  /\ Commit(closeVotingResultModal(Store))
  /\ pausedEvent' = 0
  /\ Record("closeVotingResultModal")
  /\ UNCHANGED << received, queuedAtComplete >>
  /\ UNCHANGED otherVars

Next ==
  \/ HandleSSEEvent
  \/ TimerFires
  \/ SkipCurrentEvent
  \/ TogglePause
  \/ CloseVotingResultModal

Spec == Init /\ [][Next]_vars

(***************************************************************************)
(* The timing policy taken alone: calculateReadingTime applied to texts of *)
(* 0 to MaxWords words.                                                    *)
(***************************************************************************)
\* A text of in.words one-letter words, each followed by in.gap whitespace
\* characters, after in.lead leading whitespace characters.
Text(in) ==
  [ i \in 1..(in.lead + in.words * (1 + in.gap)) |->
      IF i > in.lead /\ (i - in.lead - 1) % (1 + in.gap) = 0
        THEN "w"
        ELSE IF i % 2 = 0 THEN " " ELSE "\n" ]

Inputs == [ words : 0..MaxWords, gap : 1..MaxGap, lead : 0..1 ]

ReadingInit ==
  /\ StoreInit
  /\ StreamInit
  /\ AdapterIdle
  /\ lastEvent = NoEvent
  /\ enqueued = << >>
  /\ streams = << >>
  /\ input \in Inputs
  /\ timed = NoNum

CalculateReadingTime ==
  /\ timed = NoNum
  /\ timed' = calculateReadingTime(Text(input))
  /\ UNCHANGED << input, lastEvent, enqueued, streams, streamVars, stopped, adapterVars >>
  /\ UNCHANGED storeVars

ReadingNext == CalculateReadingTime

SpecReading == ReadingInit /\ [][ReadingNext]_vars

(***************************************************************************)
(* A session that may be stopped: the playback engine, the stream as far   *)
(* as the store sees it (it delivers events while it is being read and has *)
(* not been aborted, and may end), and stopDebateStream.                   *)
(***************************************************************************)
StreamDelivers ==
  \E event \in EventPool :
    /\ received < MaxSessionEvents
    /\ pc = "read"
    /\ ~aborted
    /\ Commit(handleSSEEvent(Store, event, received + 1))
    /\ received' = received + 1
    /\ queuedAtComplete' = IF event.event = "debate_complete"
                             THEN Arrivals(eventQueue)
                             ELSE queuedAtComplete
    /\ Record(event.event)
    /\ UNCHANGED pausedEvent
    /\ UNCHANGED otherVars

\* The server closes the stream: run() calls onComplete and returns.
StreamCompletes ==
  /\ pc = "read"
  /\ ~aborted
  /\ pc' = "returned"
  /\ Commit(onComplete(Store))
  /\ Record("onComplete")
  /\ UNCHANGED << received, pausedEvent, queuedAtComplete >>
  /\ UNCHANGED << aborted, stopped, lastEvent, enqueued, streams, timingVars, adapterVars >>

\* stopDebateStream; cancelDebate() is controller.abort().  A call that follows
\* another stopDebateStream directly is recorded as such.
StopDebateStream ==
  /\ Commit(stopDebateStream(Store))
  /\ aborted' = (aborted \/ cancelDebate # NoStream)
  /\ stopped' = TRUE
  /\ Record(IF lastOp.op \in {"stopDebateStream", "stopDebateStream twice"}
              THEN "stopDebateStream twice"
              ELSE "stopDebateStream")
  /\ UNCHANGED << received, pausedEvent, queuedAtComplete >>
  /\ UNCHANGED << pc, lastEvent, enqueued, streams, timingVars, adapterVars >>

SessionNext ==
  \/ StreamDelivers
  \/ StreamCompletes
  \/ StopDebateStream
  \/ TimerFires
  \/ SkipCurrentEvent
  \/ TogglePause
  \/ CloseVotingResultModal

SpecSession == Init /\ [][SessionNext]_vars

(***************************************************************************)
(* A session whose stream may fail: the playback engine, the stream as far *)
(* as the store sees it, and a transport error (fetch or reader.read()     *)
(* rejects with an error other than AbortError), on which the catch of     *)
(* run() calls onError, then onComplete, and run() returns.                *)
(***************************************************************************)
MaxFailureEvents == 3

FailurePool == { MsgP1, VoteCastIn, VotingComplete, DebateComplete }

FailureDelivers ==
  \E event \in FailurePool :
    /\ received < MaxFailureEvents
    /\ pc = "read"
    /\ ~aborted
    /\ Commit(handleSSEEvent(Store, event, received + 1))
    /\ received' = received + 1
    /\ queuedAtComplete' = IF event.event = "debate_complete"
                             THEN Arrivals(eventQueue)
                             ELSE queuedAtComplete
    /\ Record(event.event)
    /\ UNCHANGED pausedEvent
    /\ UNCHANGED otherVars

StreamFails ==
  /\ pc = "read"
  /\ ~aborted
  /\ pc' = "returned"
  /\ log' = catch(log, "Error")
  /\ Commit(onComplete(onError(Store)))
  /\ Record("onError")
  /\ UNCHANGED << received, pausedEvent, queuedAtComplete >>
  /\ UNCHANGED << aborted, stopped, lastEvent, enqueued, streams, timingVars, server, wire,
                  buffer, connections, cancels >>

FailureNext ==
  \/ FailureDelivers
  \/ StreamFails
  \/ TimerFires
  \/ SkipCurrentEvent
  \/ TogglePause
  \/ CloseVotingResultModal

SpecFailure == Init /\ [][FailureNext]_vars

(***************************************************************************)
(* A session in which startDebate may be called again: every call opens a  *)
(* stream of its own (streamDebate makes a new AbortController and fetch)  *)
(* whose callbacks are the store's handleSSEEvent and onComplete, and puts *)
(* the cancel function of that stream into cancelDebate.  The first stream *)
(* is open from the start.                                                 *)
(***************************************************************************)
MaxStreams == 2
MaxRestartEvents == 2

RestartPool == { MsgP1, VoteCastIn }

\* A stream that has been opened and is being read.
OpenStream == [ pc |-> "read", aborted |-> FALSE ]

\* The streams that can still call back.
LiveStreams == { k \in 1..Len(streams) : streams[k].pc = "read" /\ ~streams[k].aborted }

RestartInit ==
  /\ StoreInit
  /\ StreamInit
  /\ AdapterIdle
  /\ lastEvent = NoEvent
  /\ enqueued = << >>
  /\ streams = << OpenStream >>
  /\ input = NoInput
  /\ timed = NoNum

RestartFrame ==
  UNCHANGED << pausedEvent, queuedAtComplete, lastEvent, enqueued, timingVars,
               streamVars, adapterVars >>

\* startDebate, with a topic set: the continuation after await streamDebate(...)
\* runs before any callback of the new stream.
StartDebate ==
  /\ Len(streams) < MaxStreams
  /\ streams' = Append(streams, OpenStream)
  /\ Commit([ Store EXCEPT !.isDebating = TRUE, !.cancelDebate = Len(streams) + 1 ])
  /\ stopped' = FALSE
  /\ Record("startDebate")
  /\ UNCHANGED received
  /\ RestartFrame

\* A live stream delivers an event.
RestartDelivers ==
  \E k \in LiveStreams, event \in RestartPool :
    /\ received < MaxRestartEvents
    /\ Commit(handleSSEEvent(Store, event, received + 1))
    /\ received' = received + 1
    /\ Record(event.event)
    /\ UNCHANGED << streams, stopped >>
    /\ RestartFrame

\* The server closes a live stream: its run() calls onComplete and returns.
RestartCompletes ==
  \E k \in LiveStreams :
    /\ streams' = [ streams EXCEPT ![k].pc = "returned" ]
    /\ Commit(onComplete(Store))
    /\ Record("onComplete")
    /\ UNCHANGED << received, stopped >>
    /\ RestartFrame

\* stopDebateStream: cancelDebate() aborts the stream whose cancel function the
\* store holds.
RestartStops ==
  /\ Commit(stopDebateStream(Store))
  /\ streams' = IF cancelDebate # NoStream
                  THEN [ streams EXCEPT ![cancelDebate].aborted = TRUE ]
                  ELSE streams
  /\ stopped' = TRUE
  /\ Record("stopDebateStream")
  /\ UNCHANGED received
  /\ RestartFrame

RestartTimerFires ==
  /\ TimerFires
  /\ UNCHANGED << streams, stopped >>

RestartNext ==
  \/ StartDebate
  \/ RestartDelivers
  \/ RestartCompletes
  \/ RestartStops
  \/ RestartTimerFires

SpecRestart == RestartInit /\ [][RestartNext]_vars

(***************************************************************************)
(* The stream adapter taken alone: streamDebate has been called, its       *)
(* callbacks are recorded in log.  Each step is one resumption of run()    *)
(* after an await, or a call of the cancel function; a step of run() is    *)
(* not interrupted, the runtime being single threaded.                     *)
(***************************************************************************)
AdapterInit ==
  /\ StoreInit
  /\ lastEvent = NoEvent
  /\ enqueued = << >>
  /\ streams = << >>
  /\ input = NoInput
  /\ timed = NoNum
  /\ stopped = FALSE
  /\ pc = "fetch"
  /\ aborted = FALSE
  /\ server \in Servers
  /\ wire = WireOf(server.frames)
  /\ buffer = << >>
  /\ log = << >>
  /\ connections = 1
  /\ cancels = 0

AdapterFrame ==
  /\ UNCHANGED storeVars
  /\ UNCHANGED << stopped, lastEvent, enqueued, streams, timingVars, server, connections >>

\* await fetch(...) settles: the request was aborted, failed, was answered with
\* a status that is not OK or without a body, or was answered well.
FetchSettles ==
  /\ pc = "fetch"
  /\ IF aborted
       THEN pc' = "returned" /\ log' = catch(log, "AbortError")
     ELSE IF server.response = "ok"
       THEN pc' = "read" /\ log' = log
     ELSE pc' = "returned" /\ log' = catch(log, "Error")
  /\ UNCHANGED << aborted, wire, buffer, cancels >>
  /\ AdapterFrame

\* await reader.read() yields the next chunk, of any length.
ReadChunk ==
  \E n \in 1..Len(wire) :
    /\ pc = "read"
    /\ ~aborted
    /\ LET value == SubSeq(wire, 1, n)
           result == parseSSEBuffer(buffer \o value)
       IN  /\ buffer' = result.remaining
           /\ log' = log \o onEventCalls(result.emitted)
    /\ wire' = SubSeq(wire, n + 1, Len(wire))
    /\ UNCHANGED << pc, aborted, cancels >>
    /\ AdapterFrame

\* await reader.read() yields done: the server closed the stream.
ReadDone ==
  /\ pc = "read"
  /\ ~aborted
  /\ wire = << >>
  /\ server.ending = "close"
  /\ log' = log \o onEventCalls(parseSSEBuffer(buffer).emitted)
                \o << Call("onComplete", NoParsed) >>
  /\ pc' = "returned"
  /\ UNCHANGED << aborted, wire, buffer, cancels >>
  /\ AdapterFrame

\* await reader.read() rejects: the transport failed, at any point of the stream.
ReadFails ==
  /\ pc = "read"
  /\ ~aborted
  /\ server.ending = "error"
  /\ log' = catch(log, "Error")
  /\ pc' = "returned"
  /\ UNCHANGED << aborted, wire, buffer, cancels >>
  /\ AdapterFrame

\* await reader.read() rejects because the request was aborted.
ReadAborted ==
  /\ pc = "read"
  /\ aborted
  /\ log' = catch(log, "AbortError")
  /\ pc' = "returned"
  /\ UNCHANGED << aborted, wire, buffer, cancels >>
  /\ AdapterFrame

\* The cancel function streamDebate returned: controller.abort().
Cancel ==
  /\ cancels < MaxCancels
  /\ cancels' = cancels + 1
  /\ aborted' = TRUE
  /\ UNCHANGED << pc, wire, buffer, log >>
  /\ AdapterFrame

AdapterNext ==
  \/ FetchSettles
  \/ ReadChunk
  \/ ReadDone
  \/ ReadFails
  \/ ReadAborted
  \/ Cancel

SpecStream == AdapterInit /\ [][AdapterNext]_vars

(***************************************************************************)
(* A voting round followed event by event: the stream delivers only the    *)
(* events of a round, and the event a step dequeued last is kept.          *)
(***************************************************************************)
\* found is the queue a step dequeues from: the queue it met, with the event it
\* received appended.
Track(found) ==
  lastEvent' = IF Len(applied') > Len(applied)
                 THEN found[Len(applied') - Len(applied)]
                 ELSE lastEvent

VotingDelivers ==
  \E event \in VotingPool :
    /\ received < MaxRoundEvents
    /\ Commit(handleSSEEvent(Store, event, received + 1))
    /\ received' = received + 1
    /\ Record(event.event)
    /\ Track(Append(eventQueue, queuedEvent(event, received + 1)))
    /\ UNCHANGED << pausedEvent, queuedAtComplete, timingVars, streamVars, stopped,
                   adapterVars, enqueued, streams >>

VotingTimerFires ==
  \E t \in timers :
    /\ Commit(runTimer([ Store EXCEPT !.timers = @ \ {t} ], t))
    /\ Record(t.kind)
    /\ Track(eventQueue)
    /\ UNCHANGED << received, pausedEvent, queuedAtComplete, timingVars, streamVars, stopped,
                   adapterVars, enqueued, streams >>

VotingSkips ==
  /\ Commit(skipCurrentEvent(Store))
  /\ Record("skipCurrentEvent")
  /\ Track(eventQueue)
  /\ UNCHANGED << received, pausedEvent, queuedAtComplete, timingVars, streamVars, stopped,
                   adapterVars, enqueued, streams >>

VotingPauses ==
  /\ Commit(togglePause(Store))
  /\ Record("togglePause")
  /\ Track(eventQueue)
  /\ UNCHANGED << received, pausedEvent, queuedAtComplete, timingVars, streamVars, stopped,
                   adapterVars, enqueued, streams >>

VotingModalCloses ==
  /\ shouldResume(Store) => Cardinality(RecheckTimers(timers)) < MaxRecheck
  /\ Commit(closeVotingResultModal(Store))
  /\ Record("closeVotingResultModal")
  /\ Track(eventQueue)
  /\ UNCHANGED << received, pausedEvent, queuedAtComplete, timingVars, streamVars, stopped,
                   adapterVars, enqueued, streams >>

VotingNext ==
  \/ VotingDelivers
  \/ VotingTimerFires
  \/ VotingSkips
  \/ VotingPauses
  \/ VotingModalCloses

SpecVoting == Init /\ [][VotingNext]_vars

(***************************************************************************)
(* The playback engine followed over the payloads of its events: the       *)
(* stream delivers every form of payload, and the event a step dequeued    *)
(* last is kept.                                                           *)
(***************************************************************************)
PayloadDelivers ==
  \E event \in PayloadPool :
    /\ received < MaxPayloadEvents
    /\ Commit(handleSSEEvent(Store, event, received + 1))
    /\ received' = received + 1
    /\ Record(event.event)
    /\ Track(Append(eventQueue, queuedEvent(event, received + 1)))
    /\ UNCHANGED << pausedEvent, queuedAtComplete, timingVars, streamVars, stopped,
                   adapterVars, enqueued, streams >>

PayloadNext ==
  \/ PayloadDelivers
  \/ VotingTimerFires
  \/ VotingSkips
  \/ VotingPauses
  \/ VotingModalCloses

SpecPayloads == Init /\ [][PayloadNext]_vars

(***************************************************************************)
(* The playback engine fed with frames whose data is not JSON: parseSSEEvent *)
(* hands the text of the data line over as it is, and the spread of a       *)
(* string in handleSSEEvent yields its characters under the keys 0, 1, ...  *)
(* and none of the fields the engine reads.                                 *)
(***************************************************************************)
MaxRawEvents == 3

\* The fields the engine reads, as a raw string provides them: none.
RawData == NoData

RawEvent(kind) == SSEEvent(kind, RawData)

RawPool == { MsgP1, VoteCastIn } \cup { RawEvent(kind) : kind \in queueableEvents }

RawDelivers ==
  \E event \in RawPool :
    /\ received < MaxRawEvents
    /\ Commit(handleSSEEvent(Store, event, received + 1))
    /\ received' = received + 1
    /\ Record(event.event)
    /\ Track(Append(eventQueue, queuedEvent(event, received + 1)))
    /\ UNCHANGED << pausedEvent, queuedAtComplete, timingVars, streamVars, stopped,
                   adapterVars, enqueued, streams >>

RawNext ==
  \/ RawDelivers
  \/ VotingTimerFires
  \/ VotingSkips
  \/ VotingPauses
  \/ VotingModalCloses

SpecRaw == Init /\ [][RawNext]_vars

(***************************************************************************)
(* The playback engine fed with payloads that have a field named type: the *)
(* spread of the payload comes last in the queued event and replaces the   *)
(* type taken from the kind of the stream event.                           *)
(***************************************************************************)
MaxTypedEvents == 3

\* A message whose payload is tagged "message", and a vote whose payload is
\* tagged with another queueable kind.
TypedMessage ==
  SSEEvent("agent_message_complete", [ MsgP1.data EXCEPT !.type = "message" ])
TypedVote ==
  SSEEvent("vote_cast", [ VoteCastIn.data EXCEPT !.type = "voting_complete" ])

TypedPool == { MsgP1, VoteCastIn, TypedMessage, TypedVote }

TypedDelivers ==
  \E event \in TypedPool :
    /\ received < MaxTypedEvents
    /\ Commit(handleSSEEvent(Store, event, received + 1))
    /\ received' = received + 1
    /\ Record(event.event)
    /\ Track(Append(eventQueue, queuedEvent(event, received + 1)))
    /\ UNCHANGED << pausedEvent, queuedAtComplete, timingVars, streamVars, stopped,
                   adapterVars, enqueued, streams >>

TypedNext ==
  \/ TypedDelivers
  \/ VotingTimerFires
  \/ VotingSkips
  \/ VotingPauses
  \/ VotingModalCloses

SpecTyped == Init /\ [][TypedNext]_vars

(***************************************************************************)
(* The result modal as a component: the playback engine with the effect of *)
(* VotingResultModal, which Arena renders with isOpen from the store and   *)
(* closeVotingResultModal as onClose.  The component re-renders on every   *)
(* change of the store and its effect runs when isOpen has changed; store  *)
(* step, render and effect are one step of the model.  The timer of the    *)
(* effect is one of the runtime's timers, of kind "modal".                 *)
(***************************************************************************)
ModalPool == { MsgP1, VotingInitiated, VotingComplete, AgentSwitch }

ModalTimers(ts) == { t \in ts : t.kind = "modal" }

\* (mutant: the effect's timer is not cleared when the modal closes)
useEffect_leaking(wasOpen, s) ==
  IF s.votingResultModal.isOpen = wasOpen
    THEN s
    ELSE IF s.votingResultModal.isOpen
           THEN setTimeout(s, "modal", NoVal, ModalDelay, 0)
           ELSE s
\* The effect of VotingResultModal, with dependencies [isOpen, onClose]; onClose
\* is the store's function and never changes.  wasOpen is isOpen at the render
\* before.  When isOpen has changed, the cleanup of the last run clears its
\* timer, and the effect arms a timer if the modal is open.
useEffect(wasOpen, s) ==
  IF s.votingResultModal.isOpen = wasOpen
    THEN s
    ELSE IF s.votingResultModal.isOpen
           THEN setTimeout(s, "modal", NoVal, ModalDelay, 0)
           ELSE [ s EXCEPT !.timers = @ \ ModalTimers(@) ]

\* The store is replaced and the component rendered.
Render(s) == Commit(useEffect(votingResultModal.isOpen, s))

ModalFrame ==
  UNCHANGED << pausedEvent, queuedAtComplete, lastEvent, enqueued, streams, timingVars,
               streamVars, stopped, adapterVars >>

ModalDelivers ==
  \E event \in ModalPool :
    /\ received < MaxModalEvents
    /\ Render(handleSSEEvent(Store, event, received + 1))
    /\ received' = received + 1
    /\ Record(event.event)
    /\ ModalFrame

\* A timer of the store expires.
ModalStoreTimerFires ==
  \E t \in timers \ ModalTimers(timers) :
    /\ Render(runTimer([ Store EXCEPT !.timers = @ \ {t} ], t))
    /\ Record(t.kind)
    /\ UNCHANGED received
    /\ ModalFrame

\* The timer of the modal expires: onClose().
ModalTimerExpires ==
  \E t \in ModalTimers(timers) :
    /\ Render(closeVotingResultModal([ Store EXCEPT !.timers = @ \ {t} ]))
    /\ Record("modal")
    /\ UNCHANGED received
    /\ ModalFrame

\* A click on the overlay of the open modal: onClose().
ModalDismissed ==
  /\ votingResultModal.isOpen
  /\ Render(closeVotingResultModal(Store))
  /\ Record("closeVotingResultModal")
  /\ UNCHANGED received
  /\ ModalFrame

ModalSkips ==
  /\ Render(skipCurrentEvent(Store))
  /\ Record("skipCurrentEvent")
  /\ UNCHANGED received
  /\ ModalFrame

ModalPauses ==
  /\ Render(togglePause(Store))
  /\ Record("togglePause")
  /\ UNCHANGED received
  /\ ModalFrame

ModalNext ==
  \/ ModalDelivers
  \/ ModalStoreTimerFires
  \/ ModalTimerExpires
  \/ ModalDismissed
  \/ ModalSkips
  \/ ModalPauses

\* A pending timer of the modal expires in the end: the runtime runs the
\* callback of every timer that is not cleared.
SpecModal == Init /\ [][ModalNext]_vars /\ WF_vars(ModalTimerExpires)

(***************************************************************************)
(* The queue followed over a session: the stream delivers while it has not *)
(* been aborted, the session may be stopped and the store reset.  The      *)
(* arrival indices of the queueable events received are kept.              *)
(***************************************************************************)
QueuePool == { MsgP1, VoteCastIn, VotingComplete, TimerUpdate }

QueueDelivers ==
  \E event \in QueuePool :
    /\ received < MaxQueueEvents
    /\ pc = "read"
    /\ ~aborted
    /\ Commit(handleSSEEvent(Store, event, received + 1))
    /\ received' = received + 1
    /\ enqueued' = IF event.event \in queueableEvents
                     THEN Append(enqueued, received + 1)
                     ELSE enqueued
    /\ Record(event.event)
    /\ UNCHANGED << pausedEvent, queuedAtComplete, lastEvent, streams, timingVars,
                   streamVars, stopped, adapterVars >>

Reset ==
  /\ Commit(reset(Store))
  /\ Record("reset")
  /\ UNCHANGED << received, pausedEvent, queuedAtComplete >>
  /\ UNCHANGED otherVars

QueueNext ==
  \/ QueueDelivers
  \/ TimerFires
  \/ SkipCurrentEvent
  \/ TogglePause
  \/ CloseVotingResultModal
  \/ StopDebateStream
  \/ Reset

SpecQueue == Init /\ [][QueueNext]_vars

(***************************************************************************)
(* Properties.                                                             *)
(***************************************************************************)
StrictlyIncreasing(seq) ==
  \A i, j \in 1..Len(seq) : i < j => seq[i] < seq[j]

Last(seq) == seq[Len(seq)]

SomeoneSpeaking ==
  \/ \E a \in DOMAIN agents :
       agents[a].isSpeaking \/ agents[a].streamingContent # EmptyString
  \/ oppositionAgent.isSpeaking
  \/ oppositionAgent.streamingContent # EmptyString

\* C1: events are dequeued and applied in the order handleSSEEvent received
\* them, each at most once: the arrival indices dequeued so far are strictly
\* increasing, every event still queued arrived after every event already
\* dequeued, and the queue itself is in arrival order.
C1_AppliedInArrivalOrder ==
  /\ StrictlyIncreasing(applied)
  /\ StrictlyIncreasing(Arrivals(eventQueue))
  /\ \A i \in 1..Len(applied), j \in 1..Len(eventQueue) :
       applied[i] < eventQueue[j].seq
  /\ \A i \in 1..Len(applied) : applied[i] \in 1..received

\* The display timer of the first event expired and its callback dequeued the
\* second, while the third waits in the queue.
C1_Witness ==
  /\ applied = << 1, 2 >>
  /\ Len(eventQueue) = 1
  /\ lastOp.op = "message"
  /\ lastOp.dequeued = 1

\* C2: at most one display timer is pending in every state, and a step that
\* dequeues an event leaves no display timer pending that was pending before
\* it (the event dequeued before is no longer in display).
C2_OneEventInDisplay ==
  /\ [](Cardinality(DisplayTimers(timers)) <= 1)
  /\ [][ Len(applied') > Len(applied)
           => DisplayTimers(timers) \cap DisplayTimers(timers') = {} ]_vars

\* An event is in display while another waits in the queue, after a pause and
\* a resume.
C2_Witness ==
  /\ Cardinality(DisplayTimers(timers)) = 1
  /\ Len(eventQueue) >= 1
  /\ lastOp.op = "togglePause"
  /\ lastOp.dequeued = 1

\* C3: while the result modal stays open (closeVotingResultModal has not been
\* called) no event is dequeued, whatever handler runs.
C3_ModalBlocksQueue ==
  [][ (votingResultModal.isOpen /\ votingResultModal'.isOpen)
        => applied' = applied ]_vars

\* C4: the deferred re-check of closeVotingResultModal starts the queue at most
\* once per resume.  When its callback runs while the driver is already
\* processing or is paused, it dequeues nothing and schedules nothing; when it
\* runs on an idle driver with a non-empty queue, it dequeues the queue head;
\* it never leaves two display timers pending; and closeVotingResultModal
\* itself dequeues nothing.
C4_ResumeStartsOnce ==
  [][ /\ lastOp'.op = "recheck"
        => /\ (isProcessingQueue \/ isPaused)
                => /\ applied' = applied
                   /\ DisplayTimers(timers') = DisplayTimers(timers)
           /\ (~isProcessingQueue /\ ~isPaused /\ Len(eventQueue) > 0)
                => /\ Len(applied') > Len(applied)
                   /\ applied'[Len(applied) + 1] = Head(eventQueue).seq
           /\ Cardinality(DisplayTimers(timers')) <= 1
      /\ lastOp'.op = "closeVotingResultModal" => applied' = applied ]_vars

\* The modal was closed twice in quick succession: the first re-check started
\* the queue head, and the second ran while that event was in display and
\* dequeued nothing, leaving the next event queued.
C4_Witness ==
  /\ lastOp = [ op |-> "recheck", display |-> "message", dequeued |-> 0 ]
  /\ RecheckTimers(timers) = {}
  /\ Cardinality(DisplayTimers(timers)) = 1
  /\ isProcessingQueue
  /\ ~isPaused
  /\ Len(eventQueue) >= 1
  /\ received = 3

\* C5: queued events never wait on nothing.  Whenever an event is queued and
\* neither a pause nor an open modal holds the queue, a timer callback is
\* pending that will advance it without any further stream event or user
\* action.
C5_QueueKeepsDraining ==
  (Len(eventQueue) > 0 /\ ~isPaused /\ ~votingResultModal.isOpen)
    => timers # {}

Range(seq) == { seq[i] : i \in 1..Len(seq) }

\* The events dequeued so far among those that were queued when debate_complete
\* last arrived.
AppliedSinceComplete ==
  SelectSeq(applied, LAMBDA n : n \in Range(queuedAtComplete))

\* C6: handling debate_complete sets isDebating to false and clears the current
\* speaker in one step and changes nothing else of the driver or of the
\* display; the events queued at that moment are dequeued afterwards in their
\* queued order, none skipped.
C6_DebateCompleteKeepsQueue ==
  /\ [][ lastOp'.op = "debate_complete"
           => /\ ~isDebating'
              /\ currentSpeakerId' = NoVal
              /\ currentSpeakerRole' = NoVal
              /\ UNCHANGED << eventQueue, isProcessingQueue, isPaused,
                              queueProcessorTimeout, timers, agents,
                              oppositionAgent, applied >> ]_vars
  /\ [](AppliedSinceComplete
          = SubSeq(queuedAtComplete, 1, Len(AppliedSinceComplete)))

\* debate_complete arrived while two events were queued, and both have been
\* dequeued since, in order.
C6_Witness ==
  /\ ~isDebating
  /\ Len(queuedAtComplete) = 2
  /\ AppliedSinceComplete = queuedAtComplete
  /\ Cardinality(DisplayTimers(timers)) = 1

\* C7: skipCurrentEvent during the display of a message (not paused, no modal
\* open) cancels the message's timer and dequeues the queue head in the same
\* step; afterwards nothing is shown except the content of a message dequeued by
\* this very step.  In every state a pending display timer belongs to the event
\* dequeued last, so a cancelled timer's callback never runs against a later
\* event.
C7_SkipAdvancesAtOnce ==
  /\ [][ ( /\ lastOp'.op = "skipCurrentEvent"
           /\ lastOp'.display = "message"
           /\ ~isPaused
           /\ ~votingResultModal.isOpen )
           => /\ DisplayTimers(timers) \cap timers' = {}
              /\ Len(eventQueue) > 0
                   => /\ Len(applied') > Len(applied)
                      /\ applied'[Len(applied) + 1] = Head(eventQueue).seq
              /\ SomeoneSpeaking'
                   => /\ Len(applied') > Len(applied)
                      /\ \E t \in DisplayTimers(timers') :
                           t.kind = "message" /\ t.of = Last(applied') ]_vars
  /\ [](\A t \in DisplayTimers(timers) :
          Len(applied) > 0 /\ t.of = Last(applied))

\* A message was skipped while another message was queued: the next one is now
\* on display.
C7_Witness ==
  /\ lastOp = [ op |-> "skipCurrentEvent", display |-> "message", dequeued |-> 1 ]
  /\ ~isPaused
  /\ ~votingResultModal.isOpen
  /\ \E t \in DisplayTimers(timers) : t.kind = "message" /\ t.of = 2
  /\ oppositionAgent.streamingContent = NoWay
  /\ \A a \in DOMAIN agents : agents[a].streamingContent = EmptyString

\* C8: togglePause during a display cancels the display timer and sets
\* isPaused, leaving the displayed content and the queue as they are; and no
\* event is dequeued by any step that finds and leaves isPaused set, unless the
\* step is a togglePause (a resume).
C8_PauseFreezesDisplay ==
  [][ /\ (lastOp'.op = "togglePause" /\ ~isPaused /\ lastOp'.display # "none")
        => /\ DisplayTimers(timers') = {}
           /\ isPaused'
           /\ UNCHANGED << agents, oppositionAgent, eventQueue, applied >>
      /\ (isPaused /\ isPaused' /\ lastOp'.op # "togglePause")
        => applied' = applied ]_vars

\* A message display was paused with an event waiting: the message is still
\* shown, no timer runs, the event is still queued.
C8_Witness ==
  /\ lastOp = [ op |-> "togglePause", display |-> "message", dequeued |-> 0 ]
  /\ isPaused
  /\ agents["p1"].streamingContent = Hi
  /\ agents["p1"].isSpeaking
  /\ DisplayTimers(timers) = {}
  /\ Len(eventQueue) = 2

\* C9: a resume restarts the display that the pause interrupted: the resuming
\* togglePause dequeues nothing and arms a display timer for the event that was
\* on display when the pause was made.
C9_ResumeRestartsPausedEvent ==
  [][ (lastOp'.op = "togglePause" /\ isPaused /\ pausedEvent # 0)
        => /\ applied' = applied
           /\ \E t \in DisplayTimers(timers') : t.of = pausedEvent ]_vars

\* C10: skipCurrentEvent while the result modal is open changes nothing.
C10_SkipBlockedOnModal ==
  [][ (lastOp'.op = "skipCurrentEvent" /\ votingResultModal.isOpen)
        => UNCHANGED << eventQueue, agents, oppositionAgent, votingResultModal,
                        isPaused, isProcessingQueue, timers >> ]_vars

\* C11: skipCurrentEvent on an empty eventQueue changes nothing of the session:
\* what is displayed, the pending timers and the driver's flags stay as they
\* are, whether the driver is idle or an event is on display.
C11_SkipOnEmptyQueue ==
  [][ (lastOp'.op = "skipCurrentEvent" /\ Len(eventQueue) = 0)
        => UNCHANGED << eventQueue, agents, oppositionAgent, timers,
                        isProcessingQueue, isPaused, phase, voteCasts,
                        votingResultModal, isDebating, applied >> ]_vars

\* The kinds of the events a step dequeued, in order: they are the first
\* lastOp'.dequeued events of the queue the step found, followed by the event
\* the step itself received.
DequeuedKinds ==
  LET arrived == IF lastOp'.op \in queueableEvents THEN << lastOp'.op >> ELSE << >>
      found == [ i \in 1..Len(eventQueue) |-> eventQueue[i].type ] \o arrived
  IN  SubSeq(found, 1, lastOp'.dequeued)

\* C13: while the display timer of a proposition message is pending, the speaker
\* of the message is the one agent on display: it has isSpeaking and the
\* message's content, the timer runs for the reading time of that content, and
\* every other agent and the opposition show nothing.  When the timer expires
\* its callback leaves nothing of the message on display and dequeues the queue
\* head, if there is one.
C13_MessageOnDisplay ==
  /\ [](\A t \in timers :
          (t.kind = "message" /\ t.role = "proposition")
            => \E p \in DOMAIN agents :
                 /\ agents[p].isSpeaking
                 /\ \E e \in EventPool :
                      /\ e.event = "agent_message_complete"
                      /\ e.data.role = "proposition"
                      /\ e.data.agent_id = p
                      /\ e.data.content = agents[p].streamingContent
                      /\ e.data.content # EmptyString
                 /\ t.delay = calculateReadingTime(agents[p].streamingContent)
                 /\ \A a \in DOMAIN agents \ {p} :
                      /\ agents[a].streamingContent = EmptyString
                      /\ ~agents[a].isSpeaking
                 /\ oppositionAgent.streamingContent = EmptyString
                 /\ ~oppositionAgent.isSpeaking)
  /\ [][ (lastOp'.op = "message" /\ \E t \in timers \ timers' :
                                      t.kind = "message" /\ t.role = "proposition")
           => /\ Len(eventQueue) > 0
                => /\ Len(applied') > Len(applied)
                   /\ applied'[Len(applied) + 1] = Head(eventQueue).seq
              /\ SomeoneSpeaking'
                => /\ lastOp'.dequeued >= 1
                   /\ \E t \in DisplayTimers(timers') :
                        t.kind = "message" /\ t.of = Last(applied') ]_vars

\* The message of p1 was displayed for its reading time and its timer expired
\* with nothing queued: the arena shows nothing.
C13_Witness ==
  /\ lastOp = [ op |-> "message", display |-> "message", dequeued |-> 0 ]
  /\ currentSpeakerId = "p1"
  /\ currentSpeakerRole = "proposition"
  /\ applied = << 1 >>
  /\ ~SomeoneSpeaking
  /\ ~isProcessingQueue

C15_ReadingTimeClamped ==
  timed # NoNum
    => LET n == input.words
       IN  /\ timed \in 3000..15000
           /\ n <= 10 => timed = 3000
           /\ (10 <= n /\ n <= 50) => timed = 300 * n
           /\ n >= 50 => timed = 15000
           /\ n = 40 => timed = 12000

\* A text of 60 words was timed: the result is the upper clamp.
C15_Witness ==
  /\ input.words = 60
  /\ input.gap = 2
  /\ timed = 15000

\* C12: a step that ends by processing a voting_complete about agent X with
\* decision d opens the modal with X's name, d, the event's vote counts and their
\* sum, sets X's voteStatus to out for switch and to in otherwise, clears every
\* agent's voteCast and sets the phase to debating.  In particular, after
\* voting_initiated, vote_cast(p2, in) and vote_cast(p1, out), processing
\* voting_complete(switch, 1, 1) as the fourth event leaves the modal open with
\* switch, 1, 1 and 2, p1 voted out and no voteCast set.
C12_VotingCompleteOpensModal ==
  [][ (lastOp'.dequeued >= 1 /\ lastEvent'.type = "voting_complete")
        => LET ev == lastEvent'
               X == ev.evaluating_agent_id
           IN  /\ votingResultModal'.isOpen
               /\ votingResultModal'.agentName = ev.evaluating_agent_name
               /\ votingResultModal'.decision = ev.decision
               /\ votingResultModal'.inVotes = ev.in_votes
               /\ votingResultModal'.outVotes = ev.out_votes
               /\ votingResultModal'.totalVotes = ev.in_votes + ev.out_votes
               /\ agents'[X].voteStatus
                    = IF ev.decision = "switch" THEN "out" ELSE "in"
               /\ \A a \in DOMAIN agents' : agents'[a].voteCast = NoVoteCast
               /\ phase' = "debating"
               /\ ( /\ applied' = << 1, 2, 3, 4 >>
                    /\ phase = "voting"
                    /\ Len(voteCasts) = 2
                    /\ ev.decision = "switch" /\ ev.in_votes = 1 /\ ev.out_votes = 1 )
                    => /\ votingResultModal'.decision = "switch"
                       /\ votingResultModal'.inVotes = 1
                       /\ votingResultModal'.outVotes = 1
                       /\ votingResultModal'.totalVotes = 2
                       /\ agents'["p1"].voteStatus = "out" ]_vars

\* The round voting_initiated, vote_cast(p2, in), vote_cast(p1, out),
\* voting_complete(switch, 1, 1) was played on an idle driver.
C12_Witness ==
  /\ applied = << 1, 2, 3, 4 >>
  /\ lastEvent.type = "voting_complete"
  /\ lastEvent.decision = "switch"
  /\ voteCasts = << newVoteCast(queuedEvent(VoteCastIn, 2)),
                    newVoteCast(queuedEvent(VoteCastOut, 3)) >>
  /\ votingResultModal.isOpen
  /\ votingResultModal.totalVotes = 2
  /\ agents["p1"].voteStatus = "out"
  /\ phase = "debating"
  /\ lastOp.op = "vote_cast"

\* The stream the store subscribed to delivers nothing any more.
Cancelled == aborted \/ pc = "returned"

\* C16: stopDebateStream, from whatever state, leaves the stream cancelled, no
\* display timer pending, the queue empty, and isProcessingQueue, isPaused and
\* isDebating false; and once it has been called no step dequeues an event,
\* arms a display timer or puts an event in the queue.
C16_StopHaltsPlayback ==
  /\ [][ lastOp'.op \in {"stopDebateStream", "stopDebateStream twice"}
           => /\ Cancelled'
              /\ cancelDebate' = NoStream
              /\ DisplayTimers(timers') = {}
              /\ eventQueue' = << >>
              /\ ~isProcessingQueue'
              /\ ~isPaused'
              /\ ~isDebating' ]_vars
  /\ [][ stopped => /\ applied' = applied
                    /\ eventQueue' = << >>
                    /\ DisplayTimers(timers') = {}
                    /\ SomeoneSpeaking'
                         => (agents' = agents /\ oppositionAgent' = oppositionAgent)
        ]_vars

\* The session was stopped while a message was on display and a deferred modal
\* re-check was pending; the re-check has run since and found nothing to do.
C16_Witness ==
  /\ stopped
  /\ lastOp = [ op |-> "recheck", display |-> "none", dequeued |-> 0 ]
  /\ SomeoneSpeaking
  /\ aborted
  /\ timers = {}
  /\ Len(applied) = 2

\* C17: a stopDebateStream that directly follows another one changes nothing:
\* the state after two calls is the state after one.
C17_StopIdempotent ==
  [][ lastOp'.op = "stopDebateStream twice"
        => /\ lastOp.op \in {"stopDebateStream", "stopDebateStream twice"}
           /\ UNCHANGED << eventQueue, isProcessingQueue, isPaused,
                           queueProcessorTimeout, agents, oppositionAgent, phase,
                           currentSpeakerId, currentSpeakerRole,
                           currentEvaluatingAgentId, voteCasts, votingResultModal,
                           isDebating, cancelDebate, timers, applied, pc, aborted,
                           stopped >> ]_vars

\* stopDebateStream was called twice in succession on a session that was blocked
\* on the result modal with an event queued.
C17_Witness ==
  /\ lastOp.op = "stopDebateStream twice"
  /\ votingResultModal.isOpen
  /\ aborted
  /\ received = 2
  /\ Len(applied) = 1

\* The positions of the log at which a callback was invoked.
CallsOf(cb) == { i \in 1..Len(log) : log[i].cb = cb }

\* The stream is one that fails: the request or a read.
Failing == server.response # "ok" \/ server.ending = "error"

\* C18: onError is never invoked twice and no onEvent follows it; a stream that
\* failed without having been cancelled has invoked it exactly once; and only
\* one connection is ever opened.
C18_ErrorReportedOnce ==
  /\ Cardinality(CallsOf("onError")) <= 1
  /\ \A i \in CallsOf("onError"), j \in CallsOf("onEvent") : j < i
  /\ (pc = "returned" /\ Failing /\ ~aborted)
       => Cardinality(CallsOf("onError")) = 1
  /\ connections = 1

\* A read failed after an event had been delivered; nobody cancelled.
C18_Witness ==
  /\ pc = "returned"
  /\ server.ending = "error"
  /\ cancels = 0
  /\ CallsOf("onEvent") # {}
  /\ Cardinality(CallsOf("onError")) = 1
  /\ wire # << >>

\* C19: once the cancel function has been called, no callback is invoked any
\* more, however often it is called again.
C19_CancelSilences ==
  [][ aborted => log' = log ]_vars

\* The stream was cancelled twice after an event had been delivered and before
\* the server had sent everything; run() has returned.
C19_Witness ==
  /\ cancels = 2
  /\ aborted
  /\ pc = "returned"
  /\ wire # << >>
  /\ Len(log) = 1
  /\ log[1].cb = "onEvent"

\* The number of frames among the first k that have been read completely.
RECURSIVE FramesRead(_, _)
FramesRead(frames, consumed) ==
  IF frames = << >> \/ Len(FrameText[Head(frames)]) > consumed
    THEN 0
    ELSE 1 + FramesRead(Tail(frames), consumed - Len(FrameText[Head(frames)]))

\* The events handed to onEvent so far.
Delivered ==
  LET calls == SelectSeq(log, LAMBDA c : c.cb = "onEvent")
  IN  [ i \in 1..Len(calls) |->
          [ parsed |-> TRUE, event |-> calls[i].event, json |-> calls[i].json,
            data |-> calls[i].data ] ]

\* C20: however the stream is cut into chunks, the events delivered so far are
\* those of the frames received completely so far, each once and in the order
\* sent; when the stream has been read to its end, every frame's event has been
\* delivered.
C20_FramesDeliveredInOrder ==
  (server.response = "ok" /\ pc # "fetch")
    => LET consumed == Len(WireOf(server.frames)) - Len(wire)
           complete == FramesRead(server.frames, consumed)
       IN  /\ Delivered = EventsOf(SubSeq(server.frames, 1, complete))
           /\ (pc = "returned" /\ ~aborted /\ server.ending = "close")
                => Delivered = EventsOf(server.frames)

\* The first frame was delivered, and a chunk ended between the two newlines
\* that close the second frame.
C20_Witness ==
  /\ pc = "read"
  /\ server.frames = << "A", "B" >>
  /\ Len(wire) = 1
  /\ buffer # << >>
  /\ buffer[Len(buffer)] = "\n"
  /\ Len(Delivered) = 1

\* Kinds of stream events that are neither queueable nor debate_complete.
OtherKinds == { "agent_message_chunk", "timer_update", "debate_started", "unknown" }

\* The payloads of the events of the stream.
Payloads == { e.data : e \in EventPool }

\* C21: handleSSEEvent appends the event it receives to the tail of eventQueue
\* exactly when its kind is queueable: after the step the queue is the queue it
\* found with the event appended, less the events the step itself dequeued from
\* the head.  For debate_complete nothing is appended, and for every other kind
\* the handler leaves the queue and the whole store as they are, whatever the
\* payload and whatever state the store is in.
C21_QueueableEventsAppended ==
  /\ [][ /\ (received' > received /\ lastOp'.op \in queueableEvents)
           => \E e \in EventPool :
                /\ e.event = lastOp'.op
                /\ eventQueue'
                     = SubSeq(Append(eventQueue, queuedEvent(e, received')),
                              lastOp'.dequeued + 1, Len(eventQueue) + 1)
         /\ lastOp'.op = "debate_complete" => eventQueue' = eventQueue
         /\ lastOp'.op \in OtherKinds
              => UNCHANGED << eventQueue, isProcessingQueue, isPaused,
                              queueProcessorTimeout, agents, oppositionAgent,
                              phase, currentSpeakerId, currentSpeakerRole,
                              currentEvaluatingAgentId, voteCasts,
                              votingResultModal, isDebating, timers, applied >>
       ]_vars
  /\ [](\A kind \in OtherKinds, data \in Payloads :
          handleSSEEvent(Store, SSEEvent(kind, data), received + 1) = Store)

\* A vote_cast arrived while a message was on display: it waits at the tail of
\* the queue, nothing was dequeued.
C21_Witness ==
  /\ lastOp = [ op |-> "vote_cast", display |-> "message", dequeued |-> 0 ]
  /\ received = 2
  /\ applied = << 1 >>
  /\ Len(eventQueue) = 1
  /\ eventQueue[1] = queuedEvent(VoteCastIn, 2)
  /\ ~stopped

\* Who is on display: the agents and the opposition that have isSpeaking or
\* content.
Speakers ==
  { a \in DOMAIN agents :
      agents[a].isSpeaking \/ agents[a].streamingContent # EmptyString }
    \cup ( IF oppositionAgent.isSpeaking
              \/ oppositionAgent.streamingContent # EmptyString
             THEN { OppositionId } ELSE {} )

\* C22: in every reachable state at most one among the agents and the opposition
\* is speaking or shows content, whatever agent_id, agent_name and role the
\* messages carry and however pause, resume and skip interleave.
C22_OneSpeaker ==
  Cardinality(Speakers) <= 1

\* A step ended by processing an event of this kind.
Processed(kind) == lastOp'.dequeued >= 1 /\ lastEvent'.type = kind

\* C23 (as claimed): the modal that voting_complete opens takes its counts from
\* the nested vote_tally whenever the event carries one, from the flat in_votes
\* and out_votes when it carries only these, and shows 0 when it carries
\* neither; totalVotes is their sum.
C23_NestedTallyFirst ==
  [][ Processed("voting_complete")
        => LET ev == lastEvent'
               nested == ev.vote_tally # NoTally
               flat == ev.in_votes # NoNum /\ ev.out_votes # NoNum
           IN  /\ nested
                    => /\ votingResultModal'.inVotes = ev.vote_tally.in
                       /\ votingResultModal'.outVotes = ev.vote_tally.out
               /\ (flat /\ ~nested)
                    => /\ votingResultModal'.inVotes = ev.in_votes
                       /\ votingResultModal'.outVotes = ev.out_votes
               /\ (~flat /\ ~nested)
                    => /\ votingResultModal'.inVotes = 0
                       /\ votingResultModal'.outVotes = 0
               /\ votingResultModal'.totalVotes
                    = votingResultModal'.inVotes + votingResultModal'.outVotes
    ]_vars

\* C23 (amended): each count comes from its flat field when the event carries
\* it, also when a nested vote_tally is carried too (a flat 0 counts as
\* carried); from the nested vote_tally when the flat field is missing; and is 0
\* when the event carries neither; totalVotes is their sum.
C23_FlatCountFirst ==
  [][ Processed("voting_complete")
        => LET ev == lastEvent'
               modal == votingResultModal'
           IN  /\ ev.in_votes # NoNum => modal.inVotes = ev.in_votes
               /\ ev.out_votes # NoNum => modal.outVotes = ev.out_votes
               /\ (ev.in_votes = NoNum /\ ev.vote_tally # NoTally)
                    => modal.inVotes = ev.vote_tally.in
               /\ (ev.out_votes = NoNum /\ ev.vote_tally # NoTally)
                    => modal.outVotes = ev.vote_tally.out
               /\ (ev.in_votes = NoNum /\ ev.vote_tally = NoTally)
                    => modal.inVotes = 0
               /\ (ev.out_votes = NoNum /\ ev.vote_tally = NoTally)
                    => modal.outVotes = 0
               /\ modal.totalVotes = modal.inVotes + modal.outVotes
               /\ modal.isOpen
    ]_vars

\* A voting_complete that carries 1 and 1 in the flat fields and 0 and 2 in the
\* nested tally was processed after the modal of an earlier one had been closed:
\* the modal shows 1, 1 and 2.
C23_Witness ==
  /\ lastEvent = queuedEvent(VotingCompleteBoth, 2)
  /\ applied = << 1, 2 >>
  /\ lastOp.op = "recheck"
  /\ votingResultModal.isOpen
  /\ votingResultModal.inVotes = 1
  /\ votingResultModal.outVotes = 1
  /\ votingResultModal.totalVotes = 2

\* The count an event carries: in its nested vote_tally or in its flat field
\* (field is "in" or "out"); 0 when it carries none.
Carried(ev, field) ==
  IF ev.vote_tally # NoTally
    THEN ev.vote_tally[field]
    ELSE LET flat == IF field = "in" THEN ev.in_votes ELSE ev.out_votes
         IN  IF flat # NoNum THEN flat ELSE 0

\* C24: a step that ends by processing an agent_switch opens the modal with the
\* old agent's name, the counts the event carries and their sum, the decision
\* switch when outVotes exceeds inVotes and stay otherwise (whatever decision
\* the event carries), the new agent's name and the reason; it leaves every
\* agent's voteCast null; and it leaves the driver blocked: paused, not
\* processing, the events behind the agent_switch still queued.
C24_AgentSwitchOpensModal ==
  [][ Processed("agent_switch")
        => LET ev == lastEvent'
               modal == votingResultModal'
           IN  /\ modal.isOpen
               /\ modal.agentName = ev.old_agent_name
               /\ modal.inVotes = Carried(ev, "in")
               /\ modal.outVotes = Carried(ev, "out")
               /\ modal.totalVotes = modal.inVotes + modal.outVotes
               /\ modal.decision
                    = IF modal.outVotes > modal.inVotes THEN "switch" ELSE "stay"
               /\ modal.newAgentName = ev.new_agent_name
               /\ modal.reason = ev.reason
               /\ \A a \in DOMAIN agents' : agents'[a].voteCast = NoVoteCast
               /\ isPaused'
               /\ ~isProcessingQueue'
               /\ \A i \in 1..Len(eventQueue') : eventQueue'[i].seq > ev.seq
    ]_vars

\* C25: a step that processes a vote_cast by voter v, and nothing else, sets v's
\* voteCast to the vote and the reasoning of the event and leaves every other
\* agent's voteCast, every agent's voteStatus, the phase and the modal as they
\* are; the displayed content is left as it is too, but for what the step
\* cleared before it dequeued (a skip, an expiring message).  Hence a voteCast
\* once set is only cleared by a step that dequeues a voting_initiated, a
\* voting_complete or an agent_switch, and only replaced by a later vote_cast.
C25_VoteCastTouchesVoterOnly ==
  [][ /\ (lastOp'.dequeued = 1 /\ lastEvent'.type = "vote_cast")
           => LET ev == lastEvent'
                  v == ev.voter_id
              IN  /\ agents'[v].voteCast
                       = [ vote |-> ev.vote, reasoning |-> ev.reasoning ]
                  /\ \A a \in DOMAIN agents \ {v} :
                       agents'[a].voteCast = agents[a].voteCast
                  /\ \A a \in DOMAIN agents :
                       /\ agents'[a].voteStatus = agents[a].voteStatus
                       /\ lastOp'.op \notin {"skipCurrentEvent", "message"}
                            => /\ agents'[a].streamingContent
                                    = agents[a].streamingContent
                               /\ agents'[a].isSpeaking = agents[a].isSpeaking
                  /\ lastOp'.op \notin {"skipCurrentEvent", "message"}
                       => oppositionAgent' = oppositionAgent
                  /\ phase' = phase
                  /\ votingResultModal' = votingResultModal
      /\ \A a \in DOMAIN agents :
           (agents[a].voteCast # NoVoteCast
              /\ agents'[a].voteCast # agents[a].voteCast)
             => IF agents'[a].voteCast = NoVoteCast
                  THEN \E i \in 1..Len(DequeuedKinds) :
                         DequeuedKinds[i] \in { "voting_initiated", "voting_complete",
                                                "agent_switch" }
                  ELSE \E i \in 1..Len(DequeuedKinds) :
                         DequeuedKinds[i] = "vote_cast"
    ]_vars

\* p2 voted in and, a second later, p1 voted out: both votes are set.
C25_Witness ==
  /\ lastEvent = queuedEvent(VoteCastOut, 2)
  /\ lastOp = [ op |-> "vote_cast", display |-> "vote_cast", dequeued |-> 1 ]
  /\ agents["p2"].voteCast = [ vote |-> "in", reasoning |-> "good" ]
  /\ agents["p1"].voteCast = [ vote |-> "out", reasoning |-> "weak" ]
  /\ Len(voteCasts) = 2

\* The kind of the event a step dequeued last, or "none".
LastDequeuedKind ==
  IF lastOp'.dequeued >= 1 THEN DequeuedKinds[lastOp'.dequeued] ELSE "none"

\* C26: pacing by the kind of the event processed.  After a voting_initiated the
\* next queued event is dequeued in the same step, and a step that ends with a
\* voting_initiated (nothing was queued behind it) schedules no timer.  A step
\* that ends with a vote_cast schedules exactly one timer, of 1000 ms, and when
\* that timer expires its callback dequeues the queue head.  A step that ends
\* with a voting_complete or an agent_switch schedules no timer at all.
C26_PacingByKind ==
  [][ /\ \A i \in 1..Len(DequeuedKinds) :
           DequeuedKinds[i] = "voting_initiated"
             => (i < Len(DequeuedKinds) \/ eventQueue' = << >>)
      /\ LastDequeuedKind = "voting_initiated" => timers' \subseteq timers
      /\ LastDequeuedKind = "vote_cast"
           => \E t \in timers' \ timers :
                /\ timers' \ timers = { t }
                /\ t.kind = "vote_cast"
                /\ t.delay = 1000
                /\ t.of = Last(applied')
                /\ queueProcessorTimeout' = t.id
      /\ (received' = received /\ lastOp'.op = "vote_cast" /\ Len(eventQueue) > 0)
           => /\ lastOp'.dequeued >= 1
              /\ applied'[Len(applied) + 1] = Head(eventQueue).seq
      /\ LastDequeuedKind \in { "voting_complete", "agent_switch" }
           => /\ timers' \subseteq timers
              /\ DisplayTimers(timers') = {}
    ]_vars

\* A voting_initiated and a vote_cast arrived during a pause; the resume
\* dequeued both in one step, and the vote's timer of 1000 ms is pending.
C26_Witness ==
  /\ lastOp = [ op |-> "togglePause", display |-> "none", dequeued |-> 2 ]
  /\ applied = << 1, 2 >>
  /\ lastEvent.type = "vote_cast"
  /\ phase = "voting"
  /\ \E t \in timers :
       timers = { t } /\ t.kind = "vote_cast" /\ t.delay = 1000 /\ t.of = 2

C28_QueueResumesAfterClose ==
  [][ ( /\ lastOp'.op = "closeVotingResultModal"
        /\ votingResultModal.isOpen
        /\ Len(eventQueue) > 0 )
        => timers' # {} ]_vars

\* C29: whenever the result modal is open, the timer of the modal component is
\* pending, armed for 5000 ms by the step that opened the modal, with
\* closeVotingResultModal as its callback; the timer is cleared when the modal
\* is dismissed before; and a modal that is open is closed in the end, also
\* when the user does nothing.
C29_ModalClosesItself ==
  /\ [](votingResultModal.isOpen
          <=> \E t \in timers :
                ModalTimers(timers) = { t } /\ t.delay = 5000)
  /\ [][ /\ (~votingResultModal.isOpen /\ votingResultModal'.isOpen)
           => ModalTimers(timers') \cap timers = {}
         /\ lastOp'.op = "modal"
           => /\ votingResultModal.isOpen
              /\ votingResultModal' = closedModal
              /\ ~isPaused' ]_vars
  /\ (votingResultModal.isOpen ~> ~votingResultModal.isOpen)

\* The modal of a voting_complete was left alone and its own timer closed it,
\* while a message waited in the queue: the queue's deferred start is
\* scheduled.
C29_Witness ==
  /\ lastOp = [ op |-> "modal", display |-> "none", dequeued |-> 0 ]
  /\ ~votingResultModal.isOpen
  /\ ModalTimers(timers) = {}
  /\ RecheckTimers(timers) # {}
  /\ applied = << 1 >>
  /\ Len(eventQueue) = 1

\* C30: in every state the queue holds a contiguous segment of the queueable
\* events received so far, in arrival order, none of them dequeued before; and
\* every step leaves a suffix of the queue it found, extended by the event the
\* step received if that is queueable, with the events themselves unchanged, or
\* leaves the queue empty: events are appended at the tail and removed at the
\* head only, and an event that left the queue never comes back.
C30_QueueIsSegment ==
  /\ [](/\ \E i \in 1..(Len(enqueued) + 1), j \in 0..Len(enqueued) :
             Arrivals(eventQueue) = SubSeq(enqueued, i, j)
        /\ \A i \in 1..Len(eventQueue) : eventQueue[i].seq \notin Range(applied))
  /\ [][ LET new == IF enqueued' # enqueued THEN << received' >> ELSE << >>
             full == Arrivals(eventQueue) \o new
         IN  /\ \/ eventQueue' = << >>
                \/ \E k \in 0..Len(full) :
                     Arrivals(eventQueue') = SubSeq(full, k + 1, Len(full))
             /\ \A i \in 1..Len(eventQueue'), j \in 1..Len(eventQueue) :
                  eventQueue'[i].seq = eventQueue[j].seq
                    => eventQueue'[i] = eventQueue[j]
             /\ (eventQueue' # << >> /\ eventQueue # << >>)
                  => Head(eventQueue').seq >= Head(eventQueue).seq
       ]_vars

\* The first event is on display, the second was not queueable, the third
\* waits in the queue: the queue is the segment of the queueable arrivals from
\* the second one on.
C30_Witness ==
  /\ received = 3
  /\ enqueued = << 1, 3 >>
  /\ applied = << 1 >>
  /\ Arrivals(eventQueue) = << 3 >>
  /\ Cardinality(DisplayTimers(timers)) = 1

\* C31: an agent's voteStatus changes only in a step that processes a
\* voting_complete; messages, votes, a voting_initiated, an agent_switch, skip,
\* pause and modal close leave it as it is.
C31_VoteStatusPersists ==
  [][ \A a \in DOMAIN agents :
        agents'[a].voteStatus # agents[a].voteStatus
          => \E i \in 1..Len(DequeuedKinds) :
               DequeuedKinds[i] = "voting_complete" ]_vars

\* C31, as the code has it: an agent's voteStatus changes only in a step that
\* processes a voting_initiated, which clears the voteStatus of every agent,
\* or a voting_complete about that agent; messages, votes, an agent_switch,
\* skip, pause and modal close leave it as it is.
C31_VoteStatusUntilNextRound ==
  [][ /\ \A a \in DOMAIN agents :
           agents'[a].voteStatus # agents[a].voteStatus
             => \/ /\ \E i \in 1..Len(DequeuedKinds) :
                        DequeuedKinds[i] = "voting_initiated"
                   /\ agents'[a].voteStatus = NoVal
                \/ /\ Processed("voting_complete")
                   /\ lastEvent'.evaluating_agent_id = a
                   /\ agents'[a].voteStatus
                        = IF lastEvent'.decision = "switch" THEN "out" ELSE "in"
      /\ ( /\ \E i \in 1..Len(DequeuedKinds) :
                DequeuedKinds[i] = "voting_initiated"
           /\ ~Processed("voting_complete") )
           => \A a \in DOMAIN agents : agents'[a].voteStatus = NoVal
    ]_vars

C31_Witness ==
  /\ agents["p1"].voteStatus = "out"
  /\ lastEvent.type = "agent_switch"
  /\ lastOp.dequeued = 1
  /\ votingResultModal.isOpen
  /\ votingResultModal.newAgentName = "Carol"

\* C32: a transport error of the stream sets isDebating to false and
\* cancelDebate to null and leaves the queue, the driver's flags, the pending
\* timers and everything on display as they are; afterwards no event arrives
\* and the queued events are still dequeued from the front, in arrival order.
C32_ErrorKeepsPlayback ==
  /\ [][ lastOp'.op = "onError"
           => /\ ~isDebating'
              /\ cancelDebate' = NoStream
              /\ eventQueue' = eventQueue
              /\ isProcessingQueue' = isProcessingQueue
              /\ isPaused' = isPaused
              /\ queueProcessorTimeout' = queueProcessorTimeout
              /\ timers' = timers
              /\ agents' = agents
              /\ oppositionAgent' = oppositionAgent
              /\ currentSpeakerId' = currentSpeakerId
              /\ currentSpeakerRole' = currentSpeakerRole
              /\ phase' = phase
              /\ voteCasts' = voteCasts
              /\ votingResultModal' = votingResultModal
              /\ applied' = applied ]_vars
  /\ [][ CallsOf("onError") # {}
           => /\ received' = received
              /\ ~isDebating' /\ cancelDebate' = NoStream
              /\ \E k \in 0..Len(eventQueue) :
                   /\ applied' = applied \o Arrivals(SubSeq(eventQueue, 1, k))
                   /\ eventQueue' = SubSeq(eventQueue, k + 1, Len(eventQueue))
              /\ StrictlyIncreasing(applied') ]_vars

C32_Witness ==
  /\ CallsOf("onError") # {}
  /\ lastOp = [ op |-> "message", display |-> "message", dequeued |-> 1 ]
  /\ applied = << 1, 2, 3 >>
  /\ ~isDebating
  /\ SomeoneSpeaking

\* C33: processing a queued event whose payload was a raw string does not
\* stall the driver: once such an event has been dequeued, the driver is not
\* left marked as processing without a display timer pending.
C33_RawFrameHarmless ==
  ( /\ lastEvent = queuedEvent(RawEvent(lastEvent.type), lastEvent.seq)
    /\ lastEvent.seq > 0
    /\ isProcessingQueue )
    => DisplayTimers(timers) # {}

\* C34: in every reachable state the modal's totalVotes is the sum of its
\* inVotes and outVotes, and a modal that is not open holds the default of
\* every field.
C34_ModalConsistent ==
  /\ votingResultModal.totalVotes
       = votingResultModal.inVotes + votingResultModal.outVotes
  /\ ~votingResultModal.isOpen => votingResultModal = closedModal

C34_Witness ==
  /\ votingResultModal = closedModal
  /\ lastOp.op = "closeVotingResultModal"
  /\ lastEvent = queuedEvent(VotingCompleteBoth, 1)
  /\ agents["p1"].voteStatus = "out"

\* C35: whenever the driver is marked as processing, a display or advance
\* timer is pending.
C35_ProcessingHasTimer ==
  isProcessingQueue => timers # {}

\* C36: the driver is never both paused and marked as processing.
C36_PausedNotProcessing ==
  ~(isPaused /\ isProcessingQueue)

C36_Witness ==
  /\ isPaused
  /\ lastOp = [ op |-> "togglePause", display |-> "message", dequeued |-> 0 ]
  /\ Len(eventQueue) = 2
  /\ SomeoneSpeaking

\* C37: whenever the driver is at rest (not processing, not paused, nothing
\* queued, no timer pending) nobody is shown speaking: every agent and the
\* opposition have empty streamingContent and isSpeaking false.
C37_NoStaleSpeech ==
  ( /\ ~isProcessingQueue
    /\ ~isPaused
    /\ eventQueue = << >>
    /\ timers = {} )
    => ~SomeoneSpeaking

\* C38: at most one stream can call back at any time; stopDebateStream leaves
\* no stream that startDebate opened able to call back, so that no event
\* arrives after a stop until startDebate is called again; and the completion
\* of a stream that is not the one cancelDebate holds leaves cancelDebate and
\* isDebating as they are.
C38_OneStreamFeeds ==
  [][ /\ Cardinality(LiveStreams') <= 1
      /\ lastOp'.op = "stopDebateStream" => LiveStreams' = {}
      /\ (stopped /\ stopped') => (received' = received /\ eventQueue' = << >>)
      /\ \A k \in 1..Len(streams) :
           ( /\ streams'[k].pc = "returned"
             /\ streams[k].pc = "read"
             /\ cancelDebate # k )
             => (cancelDebate' = cancelDebate /\ isDebating' = isDebating)
    ]_vars

\* C39: every queued event has one of the five queueable kinds as its type,
\* and an event that arrives is queued, and processed, under the kind of the
\* stream event it was built from, whatever its payload holds.
C39_TypeIsStreamKind ==
  [][ /\ \A i \in 1..Len(eventQueue') : eventQueue'[i].type \in queueableEvents
      /\ (received' > received /\ lastOp'.op \in queueableEvents)
           => /\ (eventQueue' # << >> /\ Last(eventQueue').seq = received')
                   => Last(eventQueue').type = lastOp'.op
              /\ lastEvent'.seq = received' => lastEvent'.type = lastOp'.op
    ]_vars

====
